---- MODULE Spec2Model ----
(***************************************************************************)
(* Algo-Visualizer: the sorting and pathfinding visualizer components.     *)
(*                                                                         *)
(* JavaScript is single-threaded: an async run executes atomically from    *)
(* one resumption (the click that starts it, or the timer that ends a      *)
(* delay()) to its next `await delay()`.  Each such segment is one action. *)
(* React state is the component record (`sorting`, `pathfinding`); every   *)
(* functional updater is applied in the order it was queued, so a set...   *)
(* call is modelled as an immediate update of the record.                  *)
(***************************************************************************)
EXTENDS Integers, Sequences, FiniteSets, TLC

VARIABLES
  sorting,      \* SortingVisualizer: array, isSorting, comparingIndices, shouldStop, selectedAlgorithm, error
  sortRuns,     \* the async sort calls started so far (locals + position), in start order
  pathfinding,  \* PathfindingVisualizer: grid, isVisualizing, selectedAlgorithm, selectedTool,
                \*   shouldStop, mouseIsPressed, lastNode
  pathRuns,     \* the async pathfinding calls started so far, in start order
  edits,        \* number of editing events (mouse, clear, reset, generate, apply) so far
  library       \* algorithms/pathfinding.ts: the last search called, its arguments and results

vars == <<sorting, sortRuns, pathfinding, pathRuns, edits, library>>

sortVars == <<sorting, sortRuns>>

pathVars == <<pathfinding, pathRuns>>

(***************************************************************************)
(* Bounds of the model                                                     *)
(***************************************************************************)
MaxLen == 3        \* longest array given to a sort
MaxVal == 3        \* array values are drawn from 1..MaxVal
MaxSortRuns == 2   \* sort runs started in one behaviour
MaxPathRuns == 2   \* pathfinding runs started in one behaviour
MaxWalls == 2      \* walls of a grid a pathfinding run is given
MaxEdits == 1      \* editing events while a run is watched
MaxClicks == 3     \* editing events in one behaviour of the editing tools
MaxInput == 5      \* characters of the longest text typed into the input field
RandomSteps == 100 \* Math.random() is one of 0, 1/RandomSteps, .., 1 - 1/RandomSteps
MaxGenerated == 1  \* elements of the longest array generateNewArray draws in full

(***************************************************************************)
(* Program constants (SortingVisualizer.tsx)                               *)
(***************************************************************************)
MIN_NUMBER == 5
MAX_NUMBER == 100
\* 20 in the program
ARRAY_SIZE == 2
\* 100 in the program; scaled so that a text of MaxInput characters can hold
\* more than MAX_ELEMENTS numbers
MAX_ELEMENTS == 2

(***************************************************************************)
(* Program constants (PathfindingVisualizer.tsx).  The grid is 20 x 40 in  *)
(* the program; the model checks a GRID_ROWS x GRID_COLS grid.             *)
(***************************************************************************)
GRID_ROWS == 3
GRID_COLS == 3
Infinity == 1000000

SortingAlgorithm == {"bubble", "insertion", "merge", "quick"}

(***************************************************************************)
(* Helpers: JavaScript arrays are 0-based                                  *)
(***************************************************************************)
At(a, i) == a[i + 1]

Put(a, i, x) == [a EXCEPT ![i + 1] = x]

\* a swap that writes one side only
SwapAt_OneSide(a, i, j) == [a EXCEPT ![i + 1] = a[j + 1]]

\* [a[i], a[j]] = [a[j], a[i]]
SwapAt(a, i, j) == [a EXCEPT ![i + 1] = a[j + 1], ![j + 1] = a[i + 1]]

\* Array.prototype.slice(from, to): elements from..to-1
Slice(a, from, to) == SubSeq(a, from + 1, to)

Range(s) == {s[x] : x \in DOMAIN s}

RECURSIVE SeqsUpTo(_, _)
SeqsUpTo(S, n) ==
  IF n = 0 THEN {<<>>}
  ELSE LET shorter == SeqsUpTo(S, n - 1)
       IN shorter \cup {Append(s, x) : s \in {t \in shorter : Len(t) = n - 1}, x \in S}

Arrays == {a \in SeqsUpTo(1..MaxVal, MaxLen) : Len(a) >= 1}

IsSorted(a) == \A x \in 1..(Len(a) - 1) : a[x] <= a[x + 1]

Count(a, x) == Cardinality({k \in DOMAIN a : a[k] = x})

SameMultiset(a, b) ==
  /\ Len(a) = Len(b)
  /\ \A x \in Range(a) \cup Range(b) : Count(a, x) = Count(b, x)

(***************************************************************************)
(* A sort run: the locals of one async call.  `input` is the array the     *)
(* call captured, `arr` its working copy (newArray), `stack` the pending   *)
(* mergeSortHelper / quickSortHelper frames.  ncmp and nwrite count the    *)
(* step updates the run has published (setComparingIndices([..]) and       *)
(* setArray); stoppedAt is their sum when Stop was first pressed on the    *)
(* run, -1 before.  shown is the working copy as of the run's last         *)
(* setArray (its input before the first), nchange the number of setArray   *)
(* calls whose working copy differed from it: the Swaps and Overwrites     *)
(* that wrote a value other than the one in place.  trace lists, in order, *)
(* what the run has done: "compare" of the indices a and b, "write" (a     *)
(* setArray), "partition" entered with low = a and high = b, and "return"  *)
(* of partition with a as its result; each with the working copy then.     *)
(* In a merge sort run ids names, for each position of the working copy,   *)
(* the position of the input its element came from (Lids and Rids for L    *)
(* and R).                                                                 *)
(***************************************************************************)
NewSortRun(alg, a) ==
  [alg |-> alg, pc |-> "start", input |-> a, arr |-> a, n |-> Len(a),
   i |-> 0, j |-> 0, k |-> 0, swapped |-> FALSE, current |-> 0,
   stack |-> <<>>, L |-> <<>>, R |-> <<>>, left |-> 0, mid |-> 0,
   right |-> 0, low |-> 0, high |-> 0, pivot |-> 0,
   ncmp |-> 0, nwrite |-> 0, stoppedAt |-> -1, shown |-> a, nchange |-> 0,
   trace |-> <<>>, ids |-> [x \in 1..Len(a) |-> x], Lids |-> <<>>, Rids |-> <<>>]

Steps(r) == r.ncmp + r.nwrite

Traced(r, op, a, b) ==
  [r EXCEPT !.trace = Append(@, [op |-> op, a |-> a, b |-> b, arr |-> r.arr])]

\* setComparingIndices([a, b]); await delay()
Suspend(r, v, pc, a, b) ==
  [r |-> Traced([r EXCEPT !.pc = pc, !.ncmp = @ + 1], "compare", a, b),
   v |-> [v EXCEPT !.comparingIndices = <<a, b>>]]

\* setArray([...arr])
SetArray(r, v) ==
  [r |-> Traced([r EXCEPT !.nwrite = @ + 1, !.shown = r.arr,
                          !.nchange = IF r.arr # r.shown THEN @ + 1 ELSE @],
                 "write", -1, -1),
   v |-> [v EXCEPT !.array = r.arr]]

\* the call has returned: its locals are gone, `arr` stays as its final working copy
SortReturned(r) ==
  [NewSortRun(r.alg, r.input) EXCEPT !.pc = "done", !.arr = r.arr, !.ncmp = r.ncmp,
                                     !.nwrite = r.nwrite, !.stoppedAt = r.stoppedAt,
                                     !.shown = r.arr, !.nchange = r.nchange,
                                     !.trace = r.trace, !.ids = r.ids]

\* setIsSorting(false); setComparingIndices(null)
SortEnd(r, v) ==
  [r |-> SortReturned(r),
   v |-> [v EXCEPT !.isSorting = FALSE, !.comparingIndices = <<>>]]

(***************************************************************************)
(* bubbleSort                                                              *)
(***************************************************************************)
RECURSIVE BubbleOuter(_, _), BubbleInner(_, _)

\* a bubble sort that goes on to the next pass whatever the last one did
BubbleAfterInner_NoBreak(r, v) == BubbleOuter([r EXCEPT !.i = @ + 1], v)

\* after the inner loop: if (!swapped) break; else i++
BubbleAfterInner(r, v) ==
  IF ~r.swapped THEN SortEnd(r, v)
  ELSE BubbleOuter([r EXCEPT !.i = @ + 1], v)

\* head of the inner loop at j
BubbleInner(r, v) ==
  IF r.j < r.n - r.i - 1 /\ ~v.shouldStop
    THEN Suspend(r, v, "bubble", r.j, r.j + 1)
    ELSE BubbleAfterInner(r, v)

\* head of the outer loop at i
BubbleOuter(r, v) ==
  IF r.i < r.n - 1 /\ ~v.shouldStop
    THEN BubbleInner([r EXCEPT !.swapped = FALSE, !.j = 0], v)
    ELSE SortEnd(r, v)

\* the delay of the compare at (j, j+1) is over
BubbleResume(r, v) ==
  IF At(r.arr, r.j) > At(r.arr, r.j + 1)
    THEN LET w == SetArray([r EXCEPT !.arr = SwapAt(r.arr, r.j, r.j + 1)], v)
         IN BubbleInner([w.r EXCEPT !.swapped = TRUE, !.j = @ + 1], w.v)
    ELSE BubbleInner([r EXCEPT !.j = @ + 1], v)

(***************************************************************************)
(* insertionSort                                                           *)
(***************************************************************************)
RECURSIVE InsertionOuter(_, _)

\* insertionSort placing current at j instead of j + 1
InsertionPlace_AtJ(r, v) ==
  LET w == SetArray([r EXCEPT !.arr = Put(r.arr, r.j, r.current)], v)
  IN InsertionOuter([w.r EXCEPT !.i = @ + 1], w.v)

\* newArray[j + 1] = current; setArray; i++
InsertionPlace(r, v) ==
  LET w == SetArray([r EXCEPT !.arr = Put(r.arr, r.j + 1, r.current)], v)
  IN InsertionOuter([w.r EXCEPT !.i = @ + 1], w.v)

\* head of the while loop at j
InsertionWhile(r, v) ==
  IF r.j >= 0 /\ At(r.arr, r.j) > r.current /\ ~v.shouldStop
    THEN Suspend(r, v, "insertion", r.j, r.j + 1)
    ELSE InsertionPlace(r, v)

\* head of the for loop at i
InsertionOuter(r, v) ==
  IF r.i < Len(r.arr) /\ ~v.shouldStop
    THEN InsertionWhile([r EXCEPT !.current = At(r.arr, r.i), !.j = r.i - 1], v)
    ELSE SortEnd(r, v)

\* the delay is over: newArray[j + 1] = newArray[j]; setArray; j--
InsertionResume(r, v) ==
  LET w == SetArray([r EXCEPT !.arr = Put(r.arr, r.j + 1, At(r.arr, r.j))], v)
  IN InsertionWhile([w.r EXCEPT !.j = @ - 1], w.v)

(***************************************************************************)
(* mergeSort: mergeSortHelper's pending calls are the frames of `stack`    *)
(* (top first); stage 0 = entered, 1 = left half done, 2 = right half done *)
(***************************************************************************)
RECURSIVE mergeSortHelper(_, _), MergeLoop2(_, _), MergeLoop3(_, _)

\* merge returns, and with it the mergeSortHelper call that awaited it
MergeReturn(r, v) == mergeSortHelper([r EXCEPT !.stack = Tail(@)], v)

\* while (j < n2): copy the rest of R
MergeLoop3(r, v) ==
  IF r.j < r.right - r.mid
    THEN IF v.shouldStop THEN MergeReturn(r, v)
         ELSE LET w == SetArray([r EXCEPT !.arr = Put(@, r.k, At(r.R, r.j)),
                                          !.ids = Put(@, r.k, At(r.Rids, r.j))], v)
              IN MergeLoop3([w.r EXCEPT !.j = @ + 1, !.k = @ + 1], w.v)
    ELSE MergeReturn(r, v)

\* while (i < n1): copy the rest of L
MergeLoop2(r, v) ==
  IF r.i < r.mid - r.left + 1
    THEN IF v.shouldStop THEN MergeReturn(r, v)
         ELSE LET w == SetArray([r EXCEPT !.arr = Put(@, r.k, At(r.L, r.i)),
                                          !.ids = Put(@, r.k, At(r.Lids, r.i))], v)
              IN MergeLoop2([w.r EXCEPT !.i = @ + 1, !.k = @ + 1], w.v)
    ELSE MergeLoop3(r, v)

\* while (i < n1 && j < n2): head of the comparing loop
MergeLoop1(r, v) ==
  IF r.i < r.mid - r.left + 1 /\ r.j < r.right - r.mid
    THEN IF v.shouldStop THEN MergeReturn(r, v)
         ELSE Suspend(r, v, "merge", r.left + r.i, r.mid + 1 + r.j)
    ELSE MergeLoop2(r, v)

\* merge(arr, left, mid, right) up to its first suspension
merge(r, v, left, mid, right) ==
  MergeLoop1([r EXCEPT !.left = left, !.mid = mid, !.right = right,
                       !.L = Slice(r.arr, left, mid + 1),
                       !.R = Slice(r.arr, mid + 1, right + 1),
                       !.Lids = Slice(r.ids, left, mid + 1),
                       !.Rids = Slice(r.ids, mid + 1, right + 1),
                       !.i = 0, !.j = 0, !.k = left], v)

mergeSortHelper(r, v) ==
  IF r.stack = <<>> THEN SortEnd(r, v)
  ELSE LET f == Head(r.stack)
           mid == (f.left + f.right) \div 2
       IN IF f.stage = 0
            THEN IF f.left < f.right
                   THEN mergeSortHelper(
                          [r EXCEPT !.stack = <<[left |-> f.left, right |-> mid, stage |-> 0],
                                                [f EXCEPT !.stage = 1]>> \o Tail(@)], v)
                   ELSE mergeSortHelper([r EXCEPT !.stack = Tail(@)], v)
          ELSE IF f.stage = 1
            THEN mergeSortHelper(
                   [r EXCEPT !.stack = <<[left |-> mid + 1, right |-> f.right, stage |-> 0],
                                         [f EXCEPT !.stage = 2]>> \o Tail(@)], v)
          ELSE merge(r, v, f.left, mid, f.right)

\* a merge that takes the head of R when the two heads are equal
MergeResume_Strict(r, v) ==
  LET r1 == IF At(r.L, r.i) < At(r.R, r.j)
              THEN [r EXCEPT !.arr = Put(@, r.k, At(r.L, r.i)),
                             !.ids = Put(@, r.k, At(r.Lids, r.i)), !.i = @ + 1]
              ELSE [r EXCEPT !.arr = Put(@, r.k, At(r.R, r.j)),
                             !.ids = Put(@, r.k, At(r.Rids, r.j)), !.j = @ + 1]
      w == SetArray(r1, v)
  IN MergeLoop1([w.r EXCEPT !.k = @ + 1], w.v)

\* the delay of the compare is over: the smaller head is written at k
MergeResume(r, v) ==
  LET r1 == IF At(r.L, r.i) <= At(r.R, r.j)
              THEN [r EXCEPT !.arr = Put(@, r.k, At(r.L, r.i)),
                             !.ids = Put(@, r.k, At(r.Lids, r.i)), !.i = @ + 1]
              ELSE [r EXCEPT !.arr = Put(@, r.k, At(r.R, r.j)),
                             !.ids = Put(@, r.k, At(r.Rids, r.j)), !.j = @ + 1]
      w == SetArray(r1, v)
  IN MergeLoop1([w.r EXCEPT !.k = @ + 1], w.v)

(***************************************************************************)
(* quickSort: quickSortHelper frames; stage 0 = entered (partition runs),  *)
(* 1 = left part pending, 2 = right part pending                           *)
(***************************************************************************)
RECURSIVE quickSortHelper(_, _)

\* partition returned pi to the quickSortHelper call on top of the stack
PartitionReturn(r0, v, pi) ==
  LET r == Traced(r0, "return", pi, -1)
      f == Head(r.stack)
  IN IF pi = -1
       THEN quickSortHelper([r EXCEPT !.stack = Tail(@)], v)
       ELSE quickSortHelper(
              [r EXCEPT !.stack = <<[low |-> f.low, high |-> pi - 1, stage |-> 0, pi |-> 0],
                                    [f EXCEPT !.stage = 1, !.pi = pi]>> \o Tail(@)], v)

\* head of partition's for loop at j
PartitionLoop(r, v) ==
  IF r.j < r.high
    THEN IF v.shouldStop THEN PartitionReturn(r, v, -1)
         ELSE Suspend(r, v, "quick", r.j, r.high)
    ELSE LET w == SetArray([r EXCEPT !.arr = SwapAt(@, r.i + 1, r.high)], v)
         IN PartitionReturn(w.r, w.v, r.i + 1)

\* partition(arr, low, high) up to its first suspension
partition(r, v, low, high) ==
  PartitionLoop(Traced([r EXCEPT !.low = low, !.high = high, !.pivot = At(r.arr, high),
                                 !.i = low - 1, !.j = low],
                       "partition", low, high), v)

quickSortHelper(r, v) ==
  IF r.stack = <<>> THEN SortEnd(r, v)
  ELSE LET f == Head(r.stack)
       IN IF f.stage = 0
            THEN IF f.low < f.high
                   THEN partition(r, v, f.low, f.high)
                   ELSE quickSortHelper([r EXCEPT !.stack = Tail(@)], v)
          ELSE IF f.stage = 1
            THEN quickSortHelper(
                   [r EXCEPT !.stack = <<[low |-> f.pi + 1, high |-> f.high, stage |-> 0, pi |-> 0],
                                         [f EXCEPT !.stage = 2]>> \o Tail(@)], v)
          ELSE quickSortHelper([r EXCEPT !.stack = Tail(@)], v)

\* a partition that also moves the elements equal to the pivot to the left
PartitionResume_OrEqual(r, v) ==
  IF At(r.arr, r.j) <= r.pivot
    THEN LET w == SetArray([r EXCEPT !.i = @ + 1, !.arr = SwapAt(@, r.i + 1, r.j)], v)
         IN PartitionLoop([w.r EXCEPT !.j = @ + 1], w.v)
    ELSE PartitionLoop([r EXCEPT !.j = @ + 1], v)

\* the delay of the compare (j, high) is over
PartitionResume(r, v) ==
  IF At(r.arr, r.j) < r.pivot
    THEN LET w == SetArray([r EXCEPT !.i = @ + 1, !.arr = SwapAt(@, r.i + 1, r.j)], v)
         IN PartitionLoop([w.r EXCEPT !.j = @ + 1], w.v)
    ELSE PartitionLoop([r EXCEPT !.j = @ + 1], v)

(***************************************************************************)
(* The four entry points, each up to its first suspension                  *)
(***************************************************************************)
\* setIsSorting(true); shouldStop.current = false
SortBegin(v) == [v EXCEPT !.isSorting = TRUE, !.shouldStop = FALSE]

bubbleSort(v) == BubbleOuter(NewSortRun("bubble", v.array), SortBegin(v))

insertionSort(v) ==
  InsertionOuter([NewSortRun("insertion", v.array) EXCEPT !.i = 1], SortBegin(v))

mergeSort(v) ==
  mergeSortHelper([NewSortRun("merge", v.array) EXCEPT
                     !.stack = <<[left |-> 0, right |-> Len(v.array) - 1, stage |-> 0]>>],
                  SortBegin(v))

quickSort(v) ==
  quickSortHelper([NewSortRun("quick", v.array) EXCEPT
                     !.stack = <<[low |-> 0, high |-> Len(v.array) - 1, stage |-> 0, pi |-> 0]>>],
                  SortBegin(v))

\* a run suspended in delay() goes on when its timer fires
SortResume(r, v) ==
  CASE r.pc = "bubble" -> BubbleResume(r, v)
    [] r.pc = "insertion" -> InsertionResume(r, v)
    [] r.pc = "merge" -> MergeResume(r, v)
    [] r.pc = "quick" -> PartitionResume(r, v)

SortActive(r) == r.pc # "done"

(***************************************************************************)
(* PathfindingVisualizer: the grid                                         *)
(*                                                                         *)
(* A cell is the pair <<row, col>>; the code's key `${row},${col}` and its *)
(* split(',').map(Number) name the same pair, so the pair itself is the    *)
(* key of every map.  NullNode is null / undefined.                        *)
(***************************************************************************)
Cells == (0..(GRID_ROWS - 1)) \X (0..(GRID_COLS - 1))

NullNode == <<-1, -1>>

\* position of a cell in grid.flat()
FlatIndex(c) == c[1] * GRID_COLS + c[2]

\* grid.flat().find(pred), hits the cells that pass pred: the first in
\* row-major order, or null
FirstCell(hits) ==
  IF hits = {} THEN NullNode
  ELSE CHOOSE c \in hits : \A d \in hits : FlatIndex(c) <= FlatIndex(d)

FindStart(g) == FirstCell({c \in Cells : g[c].isStart})

FindEnd(g) == FirstCell({c \in Cells : g[c].isEnd})

initializeGrid ==
  [c \in Cells |->
     [isStart |-> c[1] = GRID_ROWS \div 2 /\ c[2] = GRID_COLS \div 4,
      isEnd |-> c[1] = GRID_ROWS \div 2 /\ c[2] = (3 * GRID_COLS) \div 4,
      distance |-> Infinity, isVisited |-> FALSE, isWall |-> FALSE,
      previousNode |-> NullNode, isInPath |-> FALSE]]

Tool == {"wall", "start", "end"}

\* an updater that leaves the old start and the old end in place
CellClickUpdate_KeepOld(g, tool, c) ==
  LET cell == g[c]
  IN CASE tool = "wall" ->
            IF cell.isStart \/ cell.isEnd THEN g
            ELSE [g EXCEPT ![c] = [cell EXCEPT !.isWall = ~cell.isWall]]
       [] tool = "start" ->
            IF cell.isWall THEN g ELSE [g EXCEPT ![c] = [cell EXCEPT !.isStart = TRUE]]
       [] tool = "end" ->
            IF cell.isWall THEN g ELSE [g EXCEPT ![c] = [cell EXCEPT !.isEnd = TRUE]]

\* the updater of handleCellClick, applied to prevGrid
CellClickUpdate(g, tool, c) ==
  LET cell == g[c]
  IN CASE tool = "wall" ->
            IF cell.isStart \/ cell.isEnd THEN g
            ELSE [g EXCEPT ![c] = [cell EXCEPT !.isWall = ~cell.isWall]]
       [] tool = "start" ->
            IF cell.isWall THEN g
            ELSE LET oldStart == FindStart(g)
                     g1 == IF oldStart # NullNode
                             THEN [g EXCEPT ![oldStart] = [g[oldStart] EXCEPT !.isStart = FALSE]]
                             ELSE g
                 IN [g1 EXCEPT ![c] = [cell EXCEPT !.isStart = TRUE]]
       [] tool = "end" ->
            IF cell.isWall THEN g
            ELSE LET oldEnd == FindEnd(g)
                     g1 == IF oldEnd # NullNode
                             THEN [g EXCEPT ![oldEnd] = [g[oldEnd] EXCEPT !.isEnd = FALSE]]
                             ELSE g
                 IN [g1 EXCEPT ![c] = [cell EXCEPT !.isEnd = TRUE]]

\* a drag that toggles the wall of any cell
getNewGridWithWallToggled_Any(g, c) ==
  [g EXCEPT ![c] = [g[c] EXCEPT !.isWall = ~g[c].isWall]]

\* getNewGridWithWallToggled(grid, row, col)
getNewGridWithWallToggled(g, c) ==
  IF g[c].isStart \/ g[c].isEnd THEN g
  ELSE [g EXCEPT ![c] = [g[c] EXCEPT !.isWall = ~g[c].isWall]]

\* an updater that clears the visited flag only
ClearPathUpdate_VisitedOnly(g) == [c \in Cells |-> [g[c] EXCEPT !.isVisited = FALSE]]

\* the updaters of clearPath and clearWalls
ClearPathUpdate(g) == [c \in Cells |-> [g[c] EXCEPT !.isVisited = FALSE, !.isInPath = FALSE]]

ClearWallsUpdate(g) == [c \in Cells |-> [g[c] EXCEPT !.isWall = FALSE]]

(***************************************************************************)
(* A pathfinding run: the locals of one async call.  `grid` is the grid    *)
(* the call captured from the render that started it: clearPath replaces   *)
(* the state by fresh objects, so later updates never reach the captured   *)
(* one, and the only writes to it are the run's own.  `previous` is also   *)
(* cameFrom, `distances` also gScore, `closed` the closedSet of A* and the *)
(* visited set of BFS and DFS.  visits and marks list, in order, the cells *)
(* the run has marked visited and in-path; stoppedAt is their number when  *)
(* Stop was first pressed on the run, -1 before.  log lists, in order, the *)
(* queue operations of a dijkstra or bfs run: the cells it has enqueued,   *)
(* dequeued and, for dijkstra, finalized (marked visited on the captured   *)
(* grid before their neighbours are relaxed), each with its distance (0 in *)
(* a bfs run).  chain is, once a dfs run has entered the end cell, the     *)
(* cells of the dfs calls pending at that moment, the end first and the     *)
(* start last.                                                             *)
(***************************************************************************)
Algorithm == {"dijkstra", "aStar", "bfs", "dfs"}

NewPathRun(alg, g) ==
  [alg |-> alg, pc |-> "start", grid |-> g, start |-> FindStart(g), end |-> FindEnd(g),
   distances |-> [c \in Cells |-> Infinity], previous |-> [c \in Cells |-> NullNode],
   queue |-> <<>>, closed |-> {}, cur |-> NullNode, ni |-> 0,
   path |-> <<>>, pi |-> 0, stack |-> <<>>,
   visits |-> <<>>, marks |-> <<>>, stoppedAt |-> -1, log |-> <<>>,
   chain |-> <<>>]

Logged(r, op, c, d) == [r EXCEPT !.log = Append(@, [op |-> op, cell |-> c, d |-> d])]

PathSteps(r) == Len(r.visits) + Len(r.marks)

InBounds(c) ==
  c[1] >= 0 /\ c[1] < GRID_ROWS /\ c[2] >= 0 /\ c[2] < GRID_COLS

\* a neighbours array without the cell to the right
Neighbor_NoRight(c, k) ==
  CASE k = 0 -> <<c[1] - 1, c[2]>>
    [] k = 1 -> <<c[1] + 1, c[2]>>
    [] k = 2 -> <<c[1], c[2] - 1>>
    [] k = 3 -> <<c[1], c[2] - 1>>

\* the neighbours array of dijkstra, aStar and bfs: up, down, left, right
Neighbor(c, k) ==
  CASE k = 0 -> <<c[1] - 1, c[2]>>
    [] k = 1 -> <<c[1] + 1, c[2]>>
    [] k = 2 -> <<c[1], c[2] - 1>>
    [] k = 3 -> <<c[1], c[2] + 1>>

\* the neighbours array of dfs: up, right, down, left
DfsNeighbor(c, k) ==
  CASE k = 0 -> <<c[1] - 1, c[2]>>
    [] k = 1 -> <<c[1], c[2] + 1>>
    [] k = 2 -> <<c[1] + 1, c[2]>>
    [] k = 3 -> <<c[1], c[2] - 1>>

\* the call has returned: its locals are gone
PathReturned(r) ==
  [NewPathRun(r.alg, r.grid) EXCEPT !.pc = "done", !.start = r.start, !.end = r.end,
                                    !.visits = r.visits, !.marks = r.marks,
                                    !.stoppedAt = r.stoppedAt, !.log = r.log,
                                    !.chain = r.chain]

\* a return that leaves isVisualizing as it is
PathEnd_KeepsFlag(r, v) ==
  [r |-> PathReturned(r), v |-> v]

\* setIsVisualizing(false): the run returns
PathEnd(r, v) ==
  [r |-> PathReturned(r), v |-> [v EXCEPT !.isVisualizing = FALSE]]

\* setGrid(prev => ... {...cell, isVisited: true} ...); await delay()   (dijkstra)
VisitKeep(r, v, c, pc) ==
  [r |-> [r EXCEPT !.pc = pc, !.visits = Append(@, c)],
   v |-> [v EXCEPT !.grid[c].isVisited = TRUE]]

\* setGrid(prev => ... newGrid[row][col] = {...node, isVisited: true} ...); await delay()
\* where node is the captured cell                                      (aStar, bfs, dfs)
VisitCopy(r, v, c, pc) ==
  [r |-> [r EXCEPT !.pc = pc, !.visits = Append(@, c)],
   v |-> [v EXCEPT !.grid[c] = [r.grid[c] EXCEPT !.isVisited = TRUE]]]

(***************************************************************************)
(* class PriorityQueue.  A priority is g + sqrt(h2) with g and h2 naturals *)
(* (h2 = 0 for dijkstra); it is kept as the pair and compared exactly.     *)
(***************************************************************************)
\* a.g + sqrt(a.h2) < b.g + sqrt(b.h2)
PriorityLess(a, b) ==
  LET k == b.g - a.g
  IN IF k >= 0
       THEN LET t == a.h2 - b.h2 - k * k
            IN t < 0 \/ t * t < 4 * k * k * b.h2
       ELSE LET u == b.h2 - a.h2 - k * k
            IN u > 0 /\ 4 * k * k * a.h2 < u * u

\* x put into the sorted list s behind every entry that is not greater
RECURSIVE InsertSorted(_, _)
InsertSorted(s, x) ==
  IF s = <<>> THEN <<x>>
  ELSE IF PriorityLess(x.priority, Head(s).priority) THEN <<x>> \o s
  ELSE <<Head(s)>> \o InsertSorted(Tail(s), x)

\* items.sort((a, b) => a.priority - b.priority): Array.prototype.sort is stable
RECURSIVE SortItems(_)
SortItems(s) ==
  IF s = <<>> THEN <<>>
  ELSE InsertSorted(SortItems(SubSeq(s, 1, Len(s) - 1)), s[Len(s)])

\* an enqueue that puts the item in front and does not sort
enqueue_Front(items, item, priority) ==
  <<[item |-> item, priority |-> priority]>> \o items

\* enqueue(item, priority): items.push({ item, priority }); items.sort(...)
enqueue(items, item, priority) ==
  SortItems(Append(items, [item |-> item, priority |-> priority]))

has(items, item) == \E x \in DOMAIN items : items[x].item = item

(***************************************************************************)
(* visualizePath                                                           *)
(***************************************************************************)
\* a path collected with push in place of unshift: from the end to the start
RECURSIVE CollectPath_Push(_, _, _, _)
CollectPath_Push(g, previous, currentNode, path) ==
  IF currentNode # NullNode /\ ~g[currentNode].isStart
    THEN CollectPath_Push(g, previous, previous[currentNode], Append(path, currentNode))
    ELSE path

\* a path of the end node alone
CollectPath_EndOnly(g, previous, currentNode, path) ==
  IF currentNode # NullNode /\ ~g[currentNode].isStart THEN <<currentNode>> ELSE path

\* while (currentNode && !currentNode.isStart) { path.unshift(currentNode); ... }
RECURSIVE CollectPath(_, _, _, _)
CollectPath(g, previous, currentNode, path) ==
  IF currentNode # NullNode /\ ~g[currentNode].isStart
    THEN CollectPath(g, previous, previous[currentNode], <<currentNode>> \o path)
    ELSE path

\* for (const node of path): the loop at index pi
VisualizeLoop(r, v) ==
  IF r.pi < Len(r.path) /\ ~v.shouldStop
    THEN LET c == r.path[r.pi + 1]
         IN [r |-> [r EXCEPT !.pc = "path", !.pi = @ + 1, !.marks = Append(@, c)],
             v |-> [v EXCEPT !.grid[c].isInPath = TRUE, !.grid[c].isVisited = FALSE]]
    ELSE PathEnd(r, v)

\* await visualizePath(endNode, previous); break
visualizePath(r, v, endNode) ==
  VisualizeLoop([r EXCEPT !.path = CollectPath(r.grid, r.previous, endNode, <<>>),
                          !.pi = 0], v)

(***************************************************************************)
(* dijkstraAlgorithm                                                       *)
(***************************************************************************)
RECURSIVE DijkstraWhile(_, _), DijkstraNeighbors(_, _)

\* for (const neighbor of neighbors): the loop at index ni
DijkstraNeighbors(r, v) ==
  IF r.ni >= 4 THEN DijkstraWhile(r, v)
  ELSE LET nb == Neighbor(r.cur, r.ni)
           r1 == [r EXCEPT !.ni = @ + 1]
           newDistance == r.distances[r.cur] + 1
       IN IF InBounds(nb) /\ ~r.grid[nb].isWall /\ ~r.grid[nb].isVisited
             /\ newDistance < r.distances[nb]
            THEN LET r2 == Logged([r1 EXCEPT !.distances[nb] = newDistance,
                                             !.previous[nb] = r.cur,
                                             !.queue = enqueue(@, nb, [g |-> newDistance, h2 |-> 0])],
                                  "enqueue", nb, newDistance)
                 IN IF r.grid[nb].isEnd = FALSE
                      THEN VisitKeep(r2, v, nb, "dijkstra")
                      ELSE DijkstraNeighbors(r2, v)
            ELSE DijkstraNeighbors(r1, v)

\* while (!unvisited.isEmpty() && !shouldStop.current)
DijkstraWhile(r, v) ==
  IF r.queue # <<>> /\ ~v.shouldStop
    THEN LET cur == Head(r.queue).item
             r1 == Logged([r EXCEPT !.queue = Tail(@), !.cur = cur],
                          "dequeue", cur, Head(r.queue).priority.g)
         IN IF r.grid[cur].isEnd THEN visualizePath(r1, v, cur)
            ELSE IF r.grid[cur].isVisited THEN DijkstraWhile(r1, v)
            ELSE DijkstraNeighbors(
                   Logged([r1 EXCEPT !.grid[cur].isVisited = TRUE, !.ni = 0],
                          "finalize", cur, r.distances[cur]), v)
    ELSE PathEnd(r, v)

\* setIsVisualizing(true); shouldStop.current = false; clearPath()
PathBegin(v) ==
  [v EXCEPT !.isVisualizing = TRUE, !.shouldStop = FALSE, !.grid = ClearPathUpdate(@)]

\* if (!start || !end) return
NoStartOrEnd(r) == r.start = NullNode \/ r.end = NullNode

dijkstraAlgorithm(v) ==
  LET r == NewPathRun("dijkstra", v.grid)
  IN IF NoStartOrEnd(r) THEN [r |-> PathReturned(r), v |-> PathBegin(v)]
     ELSE DijkstraWhile(Logged([r EXCEPT !.distances[r.start] = 0,
                                         !.queue = enqueue(<<>>, r.start, [g |-> 0, h2 |-> 0])],
                               "enqueue", r.start, 0),
                        PathBegin(v))

(***************************************************************************)
(* aStarAlgorithm.  heuristic(a, b) is Math.sqrt(dx * dx + dy * dy); the   *)
(* model keeps the number under the root.  fScore is written and read only *)
(* as the priority handed to enqueue.                                      *)
(***************************************************************************)
Abs(x) == IF x < 0 THEN -x ELSE x

\* Math.sqrt(dx * dx + dy * dy), squared
heuristic(a, b) ==
  LET dx == Abs(a[1] - b[1])
      dy == Abs(a[2] - b[2])
  IN dx * dx + dy * dy

RECURSIVE AStarWhile(_, _), AStarNeighbors(_, _)

AStarNeighbors(r, v) ==
  IF r.ni >= 4 THEN AStarWhile(r, v)
  ELSE LET nb == Neighbor(r.cur, r.ni)
           r1 == [r EXCEPT !.ni = @ + 1]
           tentativeGScore == r.distances[r.cur] + 1
       IN IF InBounds(nb) /\ ~r.grid[nb].isWall /\ nb \notin r.closed
             /\ tentativeGScore < r.distances[nb]
            THEN LET f == [g |-> tentativeGScore, h2 |-> heuristic(nb, r.end)]
                     r2 == [r1 EXCEPT !.previous[nb] = r.cur,
                                      !.distances[nb] = tentativeGScore,
                                      !.queue = IF has(@, nb) THEN @ ELSE enqueue(@, nb, f)]
                 IN IF r.grid[nb].isEnd = FALSE
                      THEN VisitCopy(r2, v, nb, "aStar")
                      ELSE AStarNeighbors(r2, v)
            ELSE AStarNeighbors(r1, v)

\* while (!openSet.isEmpty() && !shouldStop.current)
AStarWhile(r, v) ==
  IF r.queue # <<>> /\ ~v.shouldStop
    THEN LET cur == Head(r.queue).item
             r1 == [r EXCEPT !.queue = Tail(@), !.cur = cur]
         IN IF r.grid[cur].isEnd THEN visualizePath(r1, v, cur)
            ELSE AStarNeighbors([r1 EXCEPT !.closed = @ \cup {cur}, !.ni = 0], v)
    ELSE PathEnd(r, v)

aStarAlgorithm(v) ==
  LET r == NewPathRun("aStar", v.grid)
  IN IF NoStartOrEnd(r) THEN [r |-> PathReturned(r), v |-> PathBegin(v)]
     ELSE AStarWhile([r EXCEPT !.distances[r.start] = 0,
                               !.queue = enqueue(<<>>, r.start,
                                                 [g |-> 0, h2 |-> heuristic(r.start, r.end)])],
                     PathBegin(v))

(***************************************************************************)
(* bfsAlgorithm: `queue` holds cells                                       *)
(***************************************************************************)
RECURSIVE BfsWhile(_, _), BfsNeighbors(_, _), BfsReconstruct(_, _, _)

\* while (pathCell && pathCell.isStart === false): every setGrid of the
\* reconstruction is issued in the same segment, without a delay
BfsReconstruct(r, v, pathCell) ==
  IF pathCell # NullNode /\ r.grid[pathCell].isStart = FALSE
    THEN LET prev == r.previous[pathCell]
         IN IF prev # NullNode
              THEN IF v.grid[prev].isStart = FALSE
                     THEN BfsReconstruct(
                            [r EXCEPT !.marks = Append(@, prev)],
                            [v EXCEPT !.grid[prev] = [r.grid[prev] EXCEPT !.isInPath = TRUE]],
                            prev)
                     ELSE BfsReconstruct(r, v, prev)
              ELSE PathEnd(r, v)
    ELSE PathEnd(r, v)

\* a neighbours loop that leaves the visited set as it is
BfsNeighbors_NoAdd(r, v) ==
  IF r.ni >= 4 THEN BfsWhile(r, v)
  ELSE LET nb == Neighbor(r.cur, r.ni)
           r1 == [r EXCEPT !.ni = @ + 1]
       IN IF InBounds(nb) /\ ~r.grid[nb].isWall /\ nb \notin r.closed
            THEN LET r2 == Logged([r1 EXCEPT !.previous[nb] = r.cur,
                                             !.queue = Append(@, nb)],
                                  "enqueue", nb, 0)
                 IN IF r.grid[nb].isEnd = FALSE
                      THEN VisitCopy(r2, v, nb, "bfs")
                      ELSE BfsNeighbors(r2, v)
            ELSE BfsNeighbors(r1, v)

BfsNeighbors(r, v) ==
  IF r.ni >= 4 THEN BfsWhile(r, v)
  ELSE LET nb == Neighbor(r.cur, r.ni)
           r1 == [r EXCEPT !.ni = @ + 1]
       IN IF InBounds(nb) /\ ~r.grid[nb].isWall /\ nb \notin r.closed
            THEN LET r2 == Logged([r1 EXCEPT !.closed = @ \cup {nb},
                                             !.previous[nb] = r.cur,
                                             !.queue = Append(@, nb)],
                                  "enqueue", nb, 0)
                 IN IF r.grid[nb].isEnd = FALSE
                      THEN VisitCopy(r2, v, nb, "bfs")
                      ELSE BfsNeighbors(r2, v)
            ELSE BfsNeighbors(r1, v)

\* while (queue.length > 0 && !shouldStop.current && !found)
BfsWhile(r, v) ==
  IF r.queue # <<>> /\ ~v.shouldStop
    THEN LET cur == Head(r.queue)
             r1 == Logged([r EXCEPT !.queue = Tail(@), !.cur = cur], "dequeue", cur, 0)
         IN IF r.grid[cur].isEnd THEN BfsReconstruct(r1, v, cur)
            ELSE BfsNeighbors([r1 EXCEPT !.ni = 0], v)
    ELSE PathEnd(r, v)

bfsAlgorithm(v) ==
  LET r == NewPathRun("bfs", v.grid)
  IN IF NoStartOrEnd(r) THEN [r |-> PathReturned(r), v |-> PathBegin(v)]
     ELSE BfsWhile(Logged([r EXCEPT !.queue = <<r.start>>, !.closed = {r.start}],
                          "enqueue", r.start, 0),
                   PathBegin(v))

(***************************************************************************)
(* dfsAlgorithm: the pending dfs calls are the frames of `stack` (top      *)
(* first), each with its cell and the index ni of the next neighbour       *)
(***************************************************************************)
RECURSIVE dfs(_, _, _), DfsLoop(_, _), DfsReturn(_, _, _)

\* a return that marks the caller whatever the call has found
DfsReturn_MarksAlways(r, v, found) ==
  IF r.stack = <<>> THEN PathEnd(r, v)
  ELSE LET c == Head(r.stack).cell
       IN IF ~r.grid[c].isStart
            THEN [r |-> [r EXCEPT !.pc = "dfsMark", !.marks = Append(@, c)],
                  v |-> [v EXCEPT !.grid[c] = [r.grid[c] EXCEPT !.isInPath = TRUE]]]
            ELSE DfsReturn([r EXCEPT !.stack = Tail(@)], v, TRUE)

\* the dfs call on top of the stack has returned `found` to its caller
DfsReturn(r, v, found) ==
  IF r.stack = <<>> THEN PathEnd(r, v)
  ELSE LET c == Head(r.stack).cell
       IN IF found
            THEN IF ~r.grid[c].isStart
                   THEN [r |-> [r EXCEPT !.pc = "dfsMark", !.marks = Append(@, c)],
                         v |-> [v EXCEPT !.grid[c] = [r.grid[c] EXCEPT !.isInPath = TRUE]]]
                   ELSE DfsReturn([r EXCEPT !.stack = Tail(@)], v, TRUE)
            ELSE DfsLoop(r, v)

\* for (const neighbor of neighbors) in the call on top of the stack
DfsLoop(r, v) ==
  LET f == Head(r.stack)
  IN IF f.ni >= 4 THEN DfsReturn([r EXCEPT !.stack = Tail(@)], v, FALSE)
     ELSE LET nb == DfsNeighbor(f.cell, f.ni)
              r1 == [r EXCEPT !.stack = <<[f EXCEPT !.ni = @ + 1]>> \o Tail(@)]
          IN IF InBounds(nb) /\ nb \notin r.closed /\ ~r.grid[nb].isWall
               THEN dfs([r1 EXCEPT !.previous[nb] = f.cell], v, nb)
               ELSE DfsLoop(r1, v)

\* a dfs that goes on from the end cell
DfsBody_PastEnd(r, v) == DfsLoop(r, v)

\* after the visit of the cell on top of the stack: if (currentCell.isEnd) return true
DfsBody(r, v) ==
  IF r.grid[Head(r.stack).cell].isEnd
    THEN DfsReturn([r EXCEPT !.chain = [x \in DOMAIN r.stack |-> r.stack[x].cell],
                             !.stack = Tail(@)], v, TRUE)
    ELSE DfsLoop(r, v)

\* dfs(currentCell), entered
dfs(r, v, currentCell) ==
  IF v.shouldStop THEN DfsReturn(r, v, FALSE)
  ELSE IF currentCell \in r.closed \/ r.grid[currentCell].isWall THEN DfsReturn(r, v, FALSE)
  ELSE LET r1 == [r EXCEPT !.closed = @ \cup {currentCell},
                           !.stack = <<[cell |-> currentCell, ni |-> 0]>> \o @]
       IN IF ~r.grid[currentCell].isStart /\ ~r.grid[currentCell].isEnd
            THEN VisitCopy(r1, v, currentCell, "dfsVisit")
            ELSE DfsBody(r1, v)

dfsAlgorithm(v) ==
  LET r == NewPathRun("dfs", v.grid)
  IN IF NoStartOrEnd(r) THEN [r |-> PathReturned(r), v |-> PathBegin(v)]
     ELSE dfs(r, PathBegin(v), r.start)

\* a run suspended in delay() goes on when its timer fires
PathResume(r, v) ==
  CASE r.pc = "dijkstra" -> DijkstraNeighbors(r, v)
    [] r.pc = "aStar" -> AStarNeighbors(r, v)
    [] r.pc = "bfs" -> BfsNeighbors(r, v)
    [] r.pc = "dfsVisit" -> DfsBody(r, v)
    [] r.pc = "dfsMark" -> DfsReturn([r EXCEPT !.stack = Tail(@)], v, TRUE)
    [] r.pc = "path" -> VisualizeLoop(r, v)

PathActive(r) == r.pc # "done"

(***************************************************************************)
(* algorithms/pathfinding.ts.  The functions work on the nodes of the grid *)
(* they are handed and write distance, isVisited, previousNode and fScore  *)
(* into them: a call is modelled by the grid it leaves together with what  *)
(* it returns.  fScore, an optional field, is kept beside the grid, with   *)
(* Infinity for a node that has none: it is read as fScore ?? Infinity     *)
(* only.  isBlock is never set and is left out.                            *)
(***************************************************************************)
\* getAllNodes(grid): the nodes row by row
getAllNodes ==
  [k \in 1..(GRID_ROWS * GRID_COLS) |-> <<(k - 1) \div GRID_COLS, (k - 1) % GRID_COLS>>]

\* x put into the list s, sorted by key, behind every node whose key is not
\* greater (Infinity - Infinity is NaN, which sort reads as equal)
RECURSIVE InsertByKey(_, _, _)
InsertByKey(s, x, key) ==
  IF s = <<>> THEN <<x>>
  ELSE IF key[x] < key[Head(s)] THEN <<x>> \o s
  ELSE <<Head(s)>> \o InsertByKey(Tail(s), x, key)

\* Array.prototype.sort with the comparator key(a) - key(b): stable
RECURSIVE SortByKey(_, _)
SortByKey(s, key) ==
  IF s = <<>> THEN <<>>
  ELSE InsertByKey(SortByKey(SubSeq(s, 1, Len(s) - 1), key), s[Len(s)], key)

sortNodesByDistance(unvisitedNodes, grid) ==
  SortByKey(unvisitedNodes, [c \in Cells |-> grid[c].distance])

sortNodesByFScore(unvisitedNodes, fScore) == SortByKey(unvisitedNodes, fScore)

\* neighbours that keep the visited nodes
getNeighbors_All(node, grid) ==
  SelectSeq(<<<<node[1] - 1, node[2]>>, <<node[1] + 1, node[2]>>,
              <<node[1], node[2] - 1>>, <<node[1], node[2] + 1>>>>, InBounds)

\* getNeighbors(node, grid): up, down, left, right, those inside the grid and
\* not visited; walls are not left out
getNeighbors(node, grid) ==
  LET Keep(n) == InBounds(n) /\ ~grid[n].isVisited
  IN  SelectSeq(<<<<node[1] - 1, node[2]>>, <<node[1] + 1, node[2]>>,
                  <<node[1], node[2] - 1>>, <<node[1], node[2] + 1>>>>, Keep)

\* updateNeighbors(node, grid): every neighbour is written, whatever its distance
updateNeighbors(node, grid) ==
  LET neighbors == Range(getNeighbors(node, grid))
  IN  [c \in Cells |->
         IF c \in neighbors
           THEN [grid[c] EXCEPT !.distance = grid[node].distance + 1, !.previousNode = node]
           ELSE grid[c]]

\* Math.abs(nodeA.row - nodeB.row) + Math.abs(nodeA.col - nodeB.col)
ManhattanHeuristic(nodeA, nodeB) ==
  Abs(nodeA[1] - nodeB[1]) + Abs(nodeA[2] - nodeB[2])

\* the neighbours updateNeighborsAStar improves
Improved(node, grid) ==
  {c \in Range(getNeighbors(node, grid)) : grid[node].distance + 1 < grid[c].distance}

\* the writes of updateNeighborsAStar to the nodes of `improved`
WriteImproved(node, w, endNode, improved) ==
  [grid |-> [c \in Cells |->
               IF c \in improved
                 THEN [w.grid[c] EXCEPT !.distance = w.grid[node].distance + 1,
                                        !.previousNode = node]
                 ELSE w.grid[c]],
   fScore |-> [c \in Cells |->
                 IF c \in improved
                   THEN w.grid[node].distance + 1 + ManhattanHeuristic(c, endNode)
                   ELSE w.fScore[c]]]

\* updateNeighborsAStar(node, grid, endNode)
updateNeighborsAStar(node, w, endNode) ==
  WriteImproved(node, w, endNode, Improved(node, w.grid))

RECURSIVE DijkstraLoop(_, _, _, _)

\* the body of the while loop of dijkstra, the nodes sorted
DijkstraBody(grid, sorted, visitedNodes, endNode) ==
  LET closestNode == Head(sorted)
  IN  IF grid[closestNode].isWall
        THEN DijkstraLoop(grid, Tail(sorted), visitedNodes, endNode)
      ELSE IF grid[closestNode].distance = Infinity
        THEN [visitedNodes |-> visitedNodes, grid |-> grid]
      ELSE IF closestNode = endNode
        THEN [visitedNodes |-> Append(visitedNodes, closestNode),
              grid |-> [grid EXCEPT ![closestNode].isVisited = TRUE]]
      ELSE DijkstraLoop(updateNeighbors(closestNode,
                                        [grid EXCEPT ![closestNode].isVisited = TRUE]),
                        Tail(sorted), Append(visitedNodes, closestNode), endNode)

\* the while loop of dijkstra
DijkstraLoop(grid, unvisitedNodes, visitedNodes, endNode) ==
  IF unvisitedNodes = <<>> THEN [visitedNodes |-> visitedNodes, grid |-> grid]
  ELSE DijkstraBody(grid, sortNodesByDistance(unvisitedNodes, grid), visitedNodes, endNode)

\* dijkstra(grid, startNode, endNode): what it returns and the grid it leaves
dijkstra(grid, startNode, endNode) ==
  DijkstraLoop([grid EXCEPT ![startNode].distance = 0], getAllNodes, <<>>, endNode)

RECURSIVE AStarLoop(_, _, _, _)

\* the body of the while loop of aStar, the nodes sorted
AStarBody(w, sorted, visitedNodes, endNode) ==
  LET closestNode == Head(sorted)
  IN  IF w.grid[closestNode].isWall
        THEN AStarLoop(w, Tail(sorted), visitedNodes, endNode)
      ELSE IF w.grid[closestNode].distance = Infinity
        THEN [visitedNodes |-> visitedNodes, grid |-> w.grid]
      ELSE IF closestNode = endNode
        THEN [visitedNodes |-> Append(visitedNodes, closestNode),
              grid |-> [w.grid EXCEPT ![closestNode].isVisited = TRUE]]
      ELSE AStarLoop(updateNeighborsAStar(closestNode,
                                          [w EXCEPT !.grid[closestNode].isVisited = TRUE],
                                          endNode),
                     Tail(sorted), Append(visitedNodes, closestNode), endNode)

\* the while loop of aStar
AStarLoop(w, unvisitedNodes, visitedNodes, endNode) ==
  IF unvisitedNodes = <<>> THEN [visitedNodes |-> visitedNodes, grid |-> w.grid]
  ELSE AStarBody(w, sortNodesByFScore(unvisitedNodes, w.fScore), visitedNodes, endNode)

\* aStar(grid, startNode, endNode)
aStar(grid, startNode, endNode) ==
  AStarLoop([grid |-> [grid EXCEPT ![startNode].distance = 0],
             fScore |-> [c \in Cells |->
                           IF c = startNode THEN ManhattanHeuristic(startNode, endNode)
                           ELSE Infinity]],
            getAllNodes, <<>>, endNode)

\* a loop that pushes where the function unshifts
RECURSIVE ShortestPathLoop_Push(_, _, _, _)
ShortestPathLoop_Push(grid, currentNode, nodes, fuel) ==
  IF currentNode = NullNode THEN [returns |-> TRUE, nodes |-> nodes]
  ELSE IF fuel = 0 THEN [returns |-> FALSE, nodes |-> nodes]
  ELSE ShortestPathLoop_Push(grid, grid[currentNode].previousNode, Append(nodes, currentNode),
                             fuel - 1)

\* the while loop of getNodesInShortestPathOrder, given up after `fuel` nodes:
\* a chain of previousNode that never ends keeps the real loop going for ever
RECURSIVE ShortestPathLoop(_, _, _, _)
ShortestPathLoop(grid, currentNode, nodes, fuel) ==
  IF currentNode = NullNode THEN [returns |-> TRUE, nodes |-> nodes]
  ELSE IF fuel = 0 THEN [returns |-> FALSE, nodes |-> nodes]
  ELSE ShortestPathLoop(grid, grid[currentNode].previousNode, <<currentNode>> \o nodes, fuel - 1)

\* getNodesInShortestPathOrder(endNode), on the nodes of grid
getNodesInShortestPathOrder(grid, endNode) ==
  ShortestPathLoop(grid, endNode, <<>>, GRID_ROWS * GRID_COLS + 1)

\* no call made yet
NoCall ==
  [fn |-> "none", before |-> <<>>, start |-> NullNode, end |-> NullNode,
   visitedNodes |-> <<>>, grid |-> <<>>, asked |-> FALSE, returns |-> FALSE, path |-> <<>>]

(***************************************************************************)
(* SortingVisualizer: the input vector.  The text of the input field is a  *)
(* sequence of characters; the empty sequence is the empty string.         *)
(***************************************************************************)
\* the characters the model types: two digits, the separator, a blank and a
\* letter (no sign and no "x", so parseInt's sign and radix-16 prefix rest)
Alphabet == {"1", "0", ",", " ", "a"}

WhiteSpace == {" "}

Digits == {"0", "1", "2", "3", "4", "5", "6", "7", "8", "9"}

DigitValue(ch) ==
  CASE ch = "0" -> 0 [] ch = "1" -> 1 [] ch = "2" -> 2 [] ch = "3" -> 3 [] ch = "4" -> 4
    [] ch = "5" -> 5 [] ch = "6" -> 6 [] ch = "7" -> 7 [] ch = "8" -> 8 [] ch = "9" -> 9

\* String.prototype.split(sep): the pieces between the separators, in order;
\* a string without separator, the empty one included, is its only piece
RECURSIVE split(_, _)
split(s, sep) ==
  IF \A i \in 1..Len(s) : s[i] # sep THEN <<s>>
  ELSE LET i == CHOOSE k \in 1..Len(s) : s[k] = sep /\ \A j \in 1..(k - 1) : s[j] # sep
       IN  <<SubSeq(s, 1, i - 1)>> \o split(SubSeq(s, i + 1, Len(s)), sep)

RECURSIVE trimStart(_)
trimStart(s) ==
  IF s # <<>> /\ Head(s) \in WhiteSpace THEN trimStart(Tail(s)) ELSE s

RECURSIVE trimEnd(_)
trimEnd(s) ==
  IF s # <<>> /\ s[Len(s)] \in WhiteSpace THEN trimEnd(SubSeq(s, 1, Len(s) - 1)) ELSE s

\* String.prototype.trim
trim(s) == trimEnd(trimStart(s))

\* the longest prefix of s made of decimal digits
RECURSIVE DigitPrefix(_)
DigitPrefix(s) ==
  IF s # <<>> /\ Head(s) \in Digits THEN <<Head(s)>> \o DigitPrefix(Tail(s)) ELSE <<>>

\* the number a sequence of decimal digits writes
RECURSIVE Decimal(_)
Decimal(d) ==
  IF d = <<>> THEN 0
  ELSE 10 * Decimal(SubSeq(d, 1, Len(d) - 1)) + DigitValue(d[Len(d)])

NaN == [isNaN |-> TRUE, value |-> 0]

\* parseInt(s), radix undefined: leading white space is skipped, a sign is
\* read, then the longest prefix of digits is the number and whatever
\* follows it is ignored; no digit at all gives NaN
parseInt(s) ==
  LET t == trimStart(s)
      negative == t # <<>> /\ Head(t) = "-"
      u == IF t # <<>> /\ Head(t) \in {"+", "-"} THEN Tail(t) ELSE t
      d == DigitPrefix(u)
  IN  IF d = <<>> THEN NaN
      ELSE [isNaN |-> FALSE, value |-> IF negative THEN 0 - Decimal(d) ELSE Decimal(d)]

\* parseInt with the digit prefix replaced by the whole token
parseInt_Whole(s) ==
  LET t == trimStart(s)
      negative == t # <<>> /\ Head(t) = "-"
      u == IF t # <<>> /\ Head(t) \in {"+", "-"} THEN Tail(t) ELSE t
  IN  IF u = <<>> \/ \E i \in 1..Len(u) : u[i] \notin Digits THEN NaN
      ELSE [isNaN |-> FALSE, value |-> IF negative THEN 0 - Decimal(u) ELSE Decimal(u)]

\* .map(num => num.trim())
RECURSIVE TrimAll(_)
TrimAll(pieces) ==
  IF pieces = <<>> THEN <<>> ELSE <<trim(Head(pieces))>> \o TrimAll(Tail(pieces))

NotEmpty(token) == token # <<>>

\* inputVector.split(',').map(num => num.trim()).filter(num => num !== '')
Tokens(s) == SelectSeq(TrimAll(split(s, ",")), NotEmpty)

\* the last .map of handleInputVector: the tokens are parsed in order and the
\* first one that is not a number, or is out of range, throws
RECURSIVE ParseTokens(_)
ParseTokens(tokens) ==
  IF tokens = <<>> THEN [error |-> "", numbers |-> <<>>]
  ELSE LET parsed == parseInt(Head(tokens)) IN
       IF parsed.isNaN
       THEN [error |-> "Invalid number in input", numbers |-> <<>>]
       ELSE IF parsed.value < 1 \/ parsed.value > 100
       THEN [error |-> "Numbers must be between 1 and 100", numbers |-> <<>>]
       ELSE LET rest == ParseTokens(Tail(tokens)) IN
            IF rest.error # "" THEN rest
            ELSE [error |-> "", numbers |-> <<parsed.value>> \o rest.numbers]

\* the try block of handleInputVector up to setArray: the numbers it would
\* install, or the message of the error it throws
ParseInputVector(s) ==
  LET r == ParseTokens(Tokens(s)) IN
  IF r.error # "" THEN r
  ELSE IF Len(r.numbers) = 0
  THEN [error |-> "Please enter at least one number", numbers |-> <<>>]
  ELSE IF Len(r.numbers) > MAX_ELEMENTS
  THEN [error |-> "Maximum MAX_ELEMENTS elements allowed", numbers |-> <<>>]
  ELSE r

(***************************************************************************)
(* SortingVisualizer: the handlers                                         *)
(***************************************************************************)
\* Sort is rendered instead of Stop while isSorting is false
handleSort ==
  /\ ~sorting.isSorting
  /\ LET w == CASE sorting.selectedAlgorithm = "bubble" -> bubbleSort(sorting)
                [] sorting.selectedAlgorithm = "insertion" -> insertionSort(sorting)
                [] sorting.selectedAlgorithm = "merge" -> mergeSort(sorting)
                [] sorting.selectedAlgorithm = "quick" -> quickSort(sorting)
     IN /\ sorting' = w.v
        /\ sortRuns' = Append(sortRuns, w.r)
  /\ UNCHANGED <<library, pathVars, edits>>

\* the timer of a delay() fires and the suspended run goes on
SortTimer ==
  /\ \E x \in DOMAIN sortRuns :
       /\ SortActive(sortRuns[x])
       /\ LET w == SortResume(sortRuns[x], sorting)
          IN /\ sorting' = w.v
             /\ sortRuns' = [sortRuns EXCEPT ![x] = w.r]
  /\ UNCHANGED <<library, pathVars, edits>>

\* Stop is rendered while isSorting is true
Sort_handleStop ==
  /\ sorting.isSorting
  /\ sorting' = [sorting EXCEPT !.shouldStop = TRUE, !.isSorting = FALSE,
                                !.comparingIndices = <<>>]
  /\ sortRuns' = [x \in DOMAIN sortRuns |->
                    IF SortActive(sortRuns[x]) /\ sortRuns[x].stoppedAt = -1
                      THEN [sortRuns[x] EXCEPT !.stoppedAt = Steps(sortRuns[x])]
                      ELSE sortRuns[x]]
  /\ UNCHANGED <<library, pathVars, edits>>

\* the select is disabled while isSorting
Sort_handleAlgorithmChange ==
  /\ ~sorting.isSorting
  /\ \E alg \in SortingAlgorithm :
       /\ alg # sorting.selectedAlgorithm
       /\ sorting' = [sorting EXCEPT !.selectedAlgorithm = alg]
  /\ UNCHANGED <<library, sortRuns, pathVars, edits>>

\* Math.floor(Math.random() * m)
RandomBelow(m) == {(k * m) \div RandomSteps : k \in 0..(RandomSteps - 1)}

\* the arrays resetArray builds: n elements, each
\* Math.floor(Math.random() * (MAX_NUMBER - MIN_NUMBER + 1)) + MIN_NUMBER
ResetArrays(n) ==
  [1..n -> {x + MIN_NUMBER : x \in RandomBelow(MAX_NUMBER - MIN_NUMBER + 1)}]

\* the arrays generateNewArray builds, up to n elements long (10..99 in the
\* program), each Math.floor(Math.random() * 100) + 1
GeneratedArrays(n) ==
  UNION {[1..len -> {x + 1 : x \in RandomBelow(100)}] : len \in 1..n}

\* generateNewArray having drawn one of `drawn`; the button is disabled while
\* isSorting
GenerateFrom(drawn) ==
  /\ ~sorting.isSorting
  /\ \E a \in drawn : sorting' = [sorting EXCEPT !.array = a, !.error = ""]
  /\ UNCHANGED <<library, sortRuns, pathVars>>

\* where sorts are watched Math.random() stays low: the arrays of Arrays
generateNewArray == GenerateFrom(Arrays)

\* generateNewArray with every value Math.random() takes
generateNewArrayFull ==
  /\ GenerateFrom(GeneratedArrays(MaxGenerated))
  /\ UNCHANGED edits

\* onChange of the text field, disabled while isSorting: a character is typed
\* at the end of the text, or the last one is deleted
setInputVector ==
  /\ ~sorting.isSorting
  /\ \/ /\ Len(sorting.inputVector) < MaxInput
        /\ \E ch \in Alphabet :
             sorting' = [sorting EXCEPT !.inputVector = Append(@, ch)]
     \/ /\ sorting.inputVector # <<>>
        /\ sorting' = [sorting EXCEPT !.inputVector = SubSeq(@, 1, Len(@) - 1)]
  /\ UNCHANGED <<library, sortRuns, pathVars, edits>>

\* handleInputVector clearing the array when it rejects the input
handleInputVector_Clears ==
  /\ ~sorting.isSorting
  /\ LET r == ParseInputVector(sorting.inputVector) IN
       sorting' = IF r.error = ""
                  THEN [sorting EXCEPT !.array = r.numbers, !.error = ""]
                  ELSE [sorting EXCEPT !.array = <<>>, !.error = r.error]
  /\ UNCHANGED <<library, sortRuns, pathVars>>

\* the Apply button, disabled while isSorting
handleInputVector ==
  /\ ~sorting.isSorting
  /\ LET r == ParseInputVector(sorting.inputVector) IN
       sorting' = IF r.error = ""
                  THEN [sorting EXCEPT !.array = r.numbers, !.error = ""]
                  ELSE [sorting EXCEPT !.error = r.error]
  /\ UNCHANGED <<library, sortRuns, pathVars>>

(***************************************************************************)
(* PathfindingVisualizer: the handlers                                     *)
(***************************************************************************)
\* switch (selectedAlgorithm): the call up to its first delay()
Visualize(v) ==
  CASE v.selectedAlgorithm = "dijkstra" -> dijkstraAlgorithm(v)
    [] v.selectedAlgorithm = "aStar" -> aStarAlgorithm(v)
    [] v.selectedAlgorithm = "bfs" -> bfsAlgorithm(v)
    [] v.selectedAlgorithm = "dfs" -> dfsAlgorithm(v)

\* Visualize is rendered instead of Stop while isVisualizing is false
handleVisualize ==
  /\ ~pathfinding.isVisualizing
  /\ LET w == Visualize(pathfinding)
     IN /\ pathfinding' = w.v
        /\ pathRuns' = Append(pathRuns, w.r)
  /\ UNCHANGED <<library, sortVars, edits>>

PathTimer ==
  /\ \E x \in DOMAIN pathRuns :
       /\ PathActive(pathRuns[x])
       /\ LET w == PathResume(pathRuns[x], pathfinding)
          IN /\ pathfinding' = w.v
             /\ pathRuns' = [pathRuns EXCEPT ![x] = w.r]
  /\ UNCHANGED <<library, sortVars, edits>>

\* Stop is rendered while isVisualizing is true
Path_handleStop ==
  /\ pathfinding.isVisualizing
  /\ pathfinding' = [pathfinding EXCEPT !.shouldStop = TRUE, !.isVisualizing = FALSE]
  /\ pathRuns' = [x \in DOMAIN pathRuns |->
                    IF PathActive(pathRuns[x]) /\ pathRuns[x].stoppedAt = -1
                      THEN [pathRuns[x] EXCEPT !.stoppedAt = PathSteps(pathRuns[x])]
                      ELSE pathRuns[x]]
  /\ UNCHANGED <<library, sortVars, edits>>

\* the select is disabled while isVisualizing
Path_handleAlgorithmChange ==
  /\ ~pathfinding.isVisualizing
  /\ \E alg \in Algorithm :
       /\ alg # pathfinding.selectedAlgorithm
       /\ pathfinding' = [pathfinding EXCEPT !.selectedAlgorithm = alg]
  /\ UNCHANGED <<library, pathRuns, sortVars, edits>>

handleToolChange ==
  /\ \E tool \in Tool :
       /\ tool # pathfinding.selectedTool
       /\ pathfinding' = [pathfinding EXCEPT !.selectedTool = tool]
  /\ UNCHANGED <<library, pathRuns, sortVars, edits>>

\* handleCellClick(row, col): if (isVisualizing) return; setGrid(updater)
handleCellClick(v, c) ==
  IF v.isVisualizing THEN v
  ELSE [v EXCEPT !.grid = CellClickUpdate(@, v.selectedTool, c)]

\* onMouseDown of a cell
MouseDown(v, c) ==
  IF v.isVisualizing THEN v
  ELSE [handleCellClick(v, c) EXCEPT !.mouseIsPressed = TRUE, !.lastNode = c]

\* onMouseEnter of a cell
MouseEnter(v, c) ==
  IF ~v.mouseIsPressed \/ v.isVisualizing THEN v
  ELSE IF v.lastNode # NullNode /\ v.lastNode # c
    THEN [v EXCEPT !.grid = getNewGridWithWallToggled(@, c), !.lastNode = c]
    ELSE v

handleMouseDown ==
  /\ \E c \in Cells : pathfinding' = MouseDown(pathfinding, c)
  /\ UNCHANGED <<library, pathRuns, sortVars>>

handleMouseEnter ==
  /\ \E c \in Cells : pathfinding' = MouseEnter(pathfinding, c)
  /\ UNCHANGED <<library, pathRuns, sortVars>>

handleMouseUp ==
  /\ pathfinding.mouseIsPressed
  /\ pathfinding' = [pathfinding EXCEPT !.mouseIsPressed = FALSE, !.lastNode = NullNode]
  /\ UNCHANGED <<library, pathRuns, sortVars>>

\* the Clear Walls button is disabled while isVisualizing
clearWalls ==
  /\ ~pathfinding.isVisualizing
  /\ pathfinding' = [pathfinding EXCEPT !.grid = ClearWallsUpdate(@)]
  /\ UNCHANGED <<library, pathRuns, sortVars>>

\* the Reset Grid button is disabled while isVisualizing
resetGrid ==
  /\ ~pathfinding.isVisualizing
  /\ pathfinding' = [pathfinding EXCEPT !.grid = initializeGrid, !.shouldStop = FALSE]
  /\ UNCHANGED <<library, pathRuns, sortVars>>

(***************************************************************************)
(* Initial states                                                          *)
(***************************************************************************)
\* SortingVisualizer, mounted, showing `a` with `alg` selected
SortingWith(a, alg) ==
  [array |-> a, isSorting |-> FALSE, comparingIndices |-> <<>>, shouldStop |-> FALSE,
   selectedAlgorithm |-> alg, error |-> "", inputVector |-> <<>>]

\* PathfindingVisualizer, mounted, showing `g` with `alg` selected
PathfindingWith(g, alg) ==
  [grid |-> g, isVisualizing |-> FALSE, selectedAlgorithm |-> alg, selectedTool |-> "wall",
   shouldStop |-> FALSE, mouseIsPressed |-> FALSE, lastNode |-> NullNode]

\* the grid the editing tools give: start at s, end at e, walls W
Layout(s, e, W) ==
  [c \in Cells |-> [initializeGrid[c] EXCEPT !.isStart = (c = s), !.isEnd = (c = e),
                                              !.isWall = (c \in W)]]

\* up to n walls, none under the start or the end
WallSets(s, e, n) == {W \in SUBSET (Cells \ {s, e}) : Cardinality(W) <= n}

\* the grids with up to n walls
Layouts(n) ==
  UNION {{Layout(p[1], p[2], W) : W \in WallSets(p[1], p[2], n)} : p \in Cells \X Cells}

SortingMounted == SortingWith([x \in 1..MaxLen |-> 1], "bubble")

PathfindingMounted == PathfindingWith(initializeGrid, "dijkstra")

(***************************************************************************)
(* Specifications.  Each is the component in one scenario: the handlers    *)
(* are the same, the scenario says which of them the user triggers and how *)
(* often.  Timers of different runs fire in any order (the delay of a run  *)
(* is the speed set when it started).                                      *)
(***************************************************************************)
\* the runs that have started and not returned
ActiveSortRuns == {x \in DOMAIN sortRuns : SortActive(sortRuns[x])}

ActivePathRuns == {x \in DOMAIN pathRuns : PathActive(pathRuns[x])}

\* an editing event of a behaviour that counts them
Counted(A) == edits < MaxEdits /\ A /\ edits' = edits + 1

\* the sorting component showing any array, with any algorithm selected
InitSort ==
  /\ sorting \in {SortingWith(a, alg) : a \in Arrays, alg \in SortingAlgorithm}
  /\ sortRuns = <<>>
  /\ pathfinding = PathfindingMounted
  /\ pathRuns = <<>>
  /\ edits = 0
  /\ library = NoCall

\* Sort runs left alone, one after the other
NextSortRun ==
  \/ Len(sortRuns) < MaxSortRuns /\ handleSort
  \/ SortTimer

SpecSortRun == InitSort /\ [][NextSortRun]_vars

\* One sort run, with Stop and the array controls
NextSortStop ==
  \/ sortRuns = <<>> /\ handleSort
  \/ SortTimer
  \/ Sort_handleStop
  \/ Counted(generateNewArray)

SpecSortStop == InitSort /\ [][NextSortStop]_vars

\* Sort and Stop pressed in any order
NextSortTwo ==
  \/ Len(sortRuns) < MaxSortRuns /\ handleSort
  \/ SortTimer
  \/ Sort_handleStop
  \/ Sort_handleAlgorithmChange

SpecSortTwo == InitSort /\ [][NextSortTwo]_vars

\* The input vector: the user types into the text field and applies it while
\* nothing is sorting
InitInput ==
  /\ sorting = SortingMounted
  /\ sortRuns = <<>>
  /\ pathfinding = PathfindingMounted
  /\ pathRuns = <<>>
  /\ edits = 0
  /\ library = NoCall

NextInput ==
  \/ setInputVector
  \/ Counted(handleInputVector)

SpecInput == InitInput /\ [][NextInput]_vars

\* Random generation: the array resetArray has built on mount, then the
\* Generate New Array button
InitGenerate ==
  /\ sorting \in {SortingWith(a, "bubble") : a \in ResetArrays(ARRAY_SIZE)}
  /\ sortRuns = <<>>
  /\ pathfinding = PathfindingMounted
  /\ pathRuns = <<>>
  /\ edits = 0
  /\ library = NoCall

NextGenerate == generateNewArrayFull

SpecGenerate == InitGenerate /\ [][NextGenerate]_vars

\* algorithms/pathfinding.ts called on a fresh grid with its start and end
\* nodes, and getNodesInShortestPathOrder on the end node afterwards
InitLibrary ==
  /\ sorting = SortingMounted
  /\ sortRuns = <<>>
  /\ pathfinding = PathfindingMounted
  /\ pathRuns = <<>>
  /\ edits = 0
  /\ library = NoCall

Called(fn, g, result) ==
  [NoCall EXCEPT !.fn = fn, !.before = g, !.start = FindStart(g), !.end = FindEnd(g),
                 !.visitedNodes = result.visitedNodes, !.grid = result.grid]

Call_dijkstra ==
  /\ library.fn = "none"
  /\ \E g \in Layouts(MaxWalls) :
       library' = Called("dijkstra", g, dijkstra(g, FindStart(g), FindEnd(g)))
  /\ UNCHANGED <<sortVars, pathVars, edits>>

Call_aStar ==
  /\ library.fn = "none"
  /\ \E g \in Layouts(MaxWalls) :
       library' = Called("aStar", g, aStar(g, FindStart(g), FindEnd(g)))
  /\ UNCHANGED <<sortVars, pathVars, edits>>

Call_getNodesInShortestPathOrder ==
  /\ library.fn # "none"
  /\ ~library.asked
  /\ LET result == getNodesInShortestPathOrder(library.grid, library.end)
     IN  library' = [library EXCEPT !.asked = TRUE, !.returns = result.returns,
                                    !.path = result.nodes]
  /\ UNCHANGED <<sortVars, pathVars, edits>>

NextLibrary ==
  \/ Call_dijkstra
  \/ Call_aStar
  \/ Call_getNodesInShortestPathOrder

SpecLibrary == InitLibrary /\ [][NextLibrary]_vars

\* Pathfinding runs left alone: any grid, any algorithm
InitPathRun ==
  /\ pathfinding \in {PathfindingWith(g, alg) : g \in Layouts(MaxWalls), alg \in Algorithm}
  /\ pathRuns = <<>>
  /\ sorting = SortingMounted
  /\ sortRuns = <<>>
  /\ edits = 0
  /\ library = NoCall

NextPathRun ==
  \/ pathRuns = <<>> /\ handleVisualize
  \/ PathTimer

SpecPathRun == InitPathRun /\ [][NextPathRun]_vars

\* the pathfinding component as mounted, with any algorithm selected
InitPath ==
  /\ pathfinding \in {PathfindingWith(initializeGrid, alg) : alg \in Algorithm}
  /\ pathRuns = <<>>
  /\ sorting = SortingMounted
  /\ sortRuns = <<>>
  /\ edits = 0
  /\ library = NoCall

\* One pathfinding run, with Stop and the editing tools
NextPathStop ==
  \/ pathRuns = <<>> /\ handleVisualize
  \/ PathTimer
  \/ Path_handleStop
  \/ handleToolChange
  \/ Counted(handleMouseDown)
  \/ Counted(handleMouseEnter)
  \/ handleMouseUp /\ UNCHANGED edits
  \/ Counted(clearWalls)
  \/ Counted(resetGrid)

SpecPathStop == InitPath /\ [][NextPathStop]_vars

\* A run of the visualizer in use (App.tsx renders one of the two), on any
\* input, with Stop at any moment; every delay() timer fires in the end
InitFair == InitSort \/ InitPathRun

NextFair ==
  \/ sortRuns = <<>> /\ pathRuns = <<>> /\ handleSort
  \/ SortTimer
  \/ Sort_handleStop
  \/ sortRuns = <<>> /\ pathRuns = <<>> /\ handleVisualize
  \/ PathTimer
  \/ Path_handleStop

\* The timers are weakly fair: WF_vars(SortTimer) and WF_vars(PathTimer),
\* with ENABLED <<SortTimer>>_vars written as what it amounts to: some run is
\* suspended in delay() (the step of a resumed run always changes its
\* record: it publishes a step update or returns).
FairSortTimer == []<>(ActiveSortRuns = {}) \/ []<><<SortTimer>>_vars

FairPathTimer == []<>(ActivePathRuns = {}) \/ []<><<PathTimer>>_vars

SpecFair == InitFair /\ [][NextFair]_vars /\ FairSortTimer /\ FairPathTimer

\* Visualize and Stop pressed in any order
NextPathTwo ==
  \/ Len(pathRuns) < MaxPathRuns /\ handleVisualize
  \/ PathTimer
  \/ Path_handleStop
  \/ Path_handleAlgorithmChange

SpecPathTwo == InitPath /\ [][NextPathTwo]_vars

\* The editing tools, and a run left alone (it clears the trace when it starts)
Clicked(A) == edits < MaxClicks /\ A /\ edits' = edits + 1

NextEdit ==
  \/ pathRuns = <<>> /\ handleVisualize
  \/ PathTimer
  \/ handleToolChange
  \/ Clicked(handleMouseDown)
  \/ Clicked(handleMouseEnter)
  \/ handleMouseUp /\ UNCHANGED edits
  \/ Clicked(clearWalls)
  \/ Clicked(resetGrid)

SpecEdit == InitPath /\ [][NextEdit]_vars

(***************************************************************************)
(* Cancellation and exclusion                                              *)
(***************************************************************************)
\* C1: a run on which Stop was pressed after N step updates (compare
\* highlights, array writes, visited and in-path marks) delivers no further
\* step update: its count of step updates stays the one it had at the Stop.
C1_NoStepAfterStop ==
  /\ \A x \in DOMAIN sortRuns :
       sortRuns[x].stoppedAt # -1 => Steps(sortRuns[x]) = sortRuns[x].stoppedAt
  /\ \A x \in DOMAIN pathRuns :
       pathRuns[x].stoppedAt # -1 => PathSteps(pathRuns[x]) = pathRuns[x].stoppedAt

\* C2: at most one run of a component is active (started and not returned)
\* at any time.
C2_OneActiveRun ==
  /\ Cardinality(ActiveSortRuns) <= 1
  /\ Cardinality(ActivePathRuns) <= 1

\* C3: while a run is active, an editing event of the user (a click or a drag
\* on a cell with any tool, Clear Walls, Reset Grid, Generate New Array)
\* leaves the grid and the array as they are.
C3_EditsRejectedWhileActive ==
  [][edits' # edits =>
       /\ ActivePathRuns # {} => pathfinding'.grid = pathfinding.grid
       /\ ActiveSortRuns # {} => sorting'.array = sorting.array]_vars

(***************************************************************************)
(* The result of a sort                                                    *)
(***************************************************************************)
\* the runs that went to their end without Stop
CompletedSortRuns ==
  {x \in DOMAIN sortRuns : sortRuns[x].pc = "done" /\ sortRuns[x].stoppedAt = -1}

\* C4: when a run of any of the four sorts completes without Stop, the array
\* shown has the length and the multiset of values of the run's input and is
\* in non-decreasing order.
C4_SortedPermutation ==
  \A x \in CompletedSortRuns :
    x = Len(sortRuns) =>
      /\ Len(sorting.array) = Len(sortRuns[x].input)
      /\ SameMultiset(sorting.array, sortRuns[x].input)
      /\ IsSorted(sorting.array)
      /\ ~sorting.isSorting

\* a merge sort has completed on a longest input that was out of order
C4_Witness ==
  \E x \in CompletedSortRuns :
    /\ x = Len(sortRuns)
    /\ sortRuns[x].alg = "merge"
    /\ Len(sortRuns[x].input) = MaxLen
    /\ ~IsSorted(sortRuns[x].input)
    /\ sorting.array # sortRuns[x].input

(***************************************************************************)
(* Paths.  The grid of reference: cells next to each other, the component  *)
(* of the start, and a run of an algorithm taken to its end with every     *)
(* timer fired and no other event.                                         *)
(***************************************************************************)
Adjacent(a, b) == Abs(a[1] - b[1]) + Abs(a[2] - b[2]) = 1

Manhattan(a, b) == Abs(a[1] - b[1]) + Abs(a[2] - b[2])

Walls(g) == {c \in Cells : g[c].isWall}

\* the cells reached from the cells of S without crossing a wall
RECURSIVE Grow(_, _)
Grow(g, S) ==
  LET more == {c \in Cells \ S : ~g[c].isWall /\ \E d \in S : Adjacent(c, d)}
  IN IF more = {} THEN S ELSE Grow(g, S \cup more)

Component(g) == Grow(g, {FindStart(g)})

EndReachable(g) == FindEnd(g) \in Component(g)

RECURSIVE RunToEnd(_)
RunToEnd(w) == IF PathActive(w.r) THEN RunToEnd(PathResume(w.r, w.v)) ELSE w.r

\* the run of `alg` on the grid g with its trace cleared, left alone
RunOf(alg, g) == RunToEnd(Visualize(PathfindingWith(ClearPathUpdate(g), alg)))

\* the runs that went to their end without Stop
CompletedPathRuns ==
  {x \in DOMAIN pathRuns : pathRuns[x].pc = "done" /\ pathRuns[x].stoppedAt = -1}

\* the number of moves of the path a run marked: its cells are the marked
\* ones and the two ends
PathLength(r) == Cardinality(Range(r.marks) \cup {r.start, r.end}) - 1

\* C5: on a grid whose end is reachable, the path the A* run marks has the
\* length of the path the Dijkstra run marks on that grid, and is no longer
\* than the path the DFS run marks on it.
C5_AStarOptimal ==
  \A x \in CompletedPathRuns :
    LET r == pathRuns[x]
    IN (r.alg = "aStar" /\ EndReachable(r.grid)) =>
         /\ PathLength(r) = PathLength(RunOf("dijkstra", r.grid))
         /\ PathLength(r) <= PathLength(RunOf("dfs", r.grid))

\* an A* run has ended on a grid with walls where the DFS path is longer
C5_Witness ==
  \E x \in CompletedPathRuns :
    LET r == pathRuns[x]
    IN /\ r.alg = "aStar"
       /\ EndReachable(r.grid)
       /\ Cardinality(Walls(r.grid)) = MaxWalls
       /\ PathLength(r) >= 3
       /\ PathLength(r) < PathLength(RunOf("dfs", r.grid))

\* a run to its end on a grid without walls, by BFS or by Dijkstra
OpenGridRun(r) ==
  /\ r.alg \in {"bfs", "dijkstra"}
  /\ Walls(r.grid) = {}

Chain(s) ==
  /\ \A x \in 1..(Len(s) - 1) : Adjacent(s[x], s[x + 1])
  /\ Cardinality(Range(s)) = Len(s)

\* s, with c in front unless s begins with c
From(c, s) == IF s # <<>> /\ s[1] = c THEN s ELSE <<c>> \o s

\* s, with c behind unless s ends with c
Upto(s, c) == IF s # <<>> /\ s[Len(s)] = c THEN s ELSE Append(s, c)

\* the marks, in the order they were made, lead from the start to the end
StartToEnd(r) == Chain(Upto(From(r.start, r.marks), r.end))

\* the marks, in the order they were made, lead from the end to the start
EndToStart(r) == Chain(Upto(From(r.end, r.marks), r.start))

\* the runs that went to their end and found the end cell, away from the start
ArrivedPathRuns ==
  {x \in CompletedPathRuns :
     EndReachable(pathRuns[x].grid) /\ pathRuns[x].start # pathRuns[x].end}

\* C9 as stated: a run of any of the four algorithms that reaches the end
\* makes its in-path marks in the order of the path from the start to the end.
C9_MarksStartToEnd ==
  \A x \in ArrivedPathRuns : StartToEnd(pathRuns[x])

\* C9: a Dijkstra or A* run that reaches the end makes its in-path marks in
\* the order of the path from the start to the end, the end cell last; a BFS
\* or DFS run makes them in the order from the end to the start, the cell
\* before the end first, and marks neither start nor end.
C9_MarksInPathOrder ==
  \A x \in ArrivedPathRuns :
    LET r == pathRuns[x]
    IN /\ r.alg \in {"dijkstra", "aStar"} =>
            StartToEnd(r) /\ r.marks[Len(r.marks)] = r.end /\ r.start \notin Range(r.marks)
       /\ r.alg \in {"bfs", "dfs"} =>
            EndToStart(r) /\ Range(r.marks) \cap {r.start, r.end} = {}

\* a DFS run has reached the end and marked three cells or more, from the end
\* back to the start
C9_Witness ==
  \E x \in ArrivedPathRuns :
    /\ pathRuns[x].alg = "dfs"
    /\ Len(pathRuns[x].marks) >= 3
    /\ ~StartToEnd(pathRuns[x])

(***************************************************************************)
(* The grid under the editing tools                                        *)
(***************************************************************************)
StartCells(g) == {c \in Cells : g[c].isStart}

EndCells(g) == {c \in Cells : g[c].isEnd}

\* C10: after any sequence of wall toggles (by click or by drag), moves of
\* the start, moves of the end, Clear Walls, Reset Grid and clearings of the
\* trace, exactly one cell of the grid is the start, exactly one is the end,
\* and the grid has its GRID_ROWS x GRID_COLS cells.
C10_OneStartOneEnd ==
  /\ Cardinality(StartCells(pathfinding.grid)) = 1
  /\ Cardinality(EndCells(pathfinding.grid)) = 1
  /\ DOMAIN pathfinding.grid = Cells
  /\ Cardinality(Cells) = GRID_ROWS * GRID_COLS

\* the start has been moved onto the cell of the end, and a run has cleared
\* the trace since
C10_Witness ==
  /\ edits > 0
  /\ StartCells(pathfinding.grid) = EndCells(pathfinding.grid)
  /\ StartCells(pathfinding.grid) # StartCells(initializeGrid)
  /\ pathRuns # <<>>

\* C11: after any sequence of grid edits (wall toggles by click or by drag,
\* moves of the start and of the end, Clear Walls, Reset Grid) no cell is a
\* wall and also the start or the end: the wall tool leaves the start and the
\* end cell alone and the start and end tools leave a wall cell alone.
C11_NoWallUnderStartOrEnd ==
  \A c \in Cells :
    pathfinding.grid[c].isWall => ~pathfinding.grid[c].isStart /\ ~pathfinding.grid[c].isEnd

\* after two editing events the mouse is down, the cell last under it is the
\* start cell, and the grid has a wall
C11_Witness ==
  /\ pathfinding.mouseIsPressed
  /\ pathfinding.lastNode \in StartCells(pathfinding.grid)
  /\ edits >= 2
  /\ Walls(pathfinding.grid) # {}

\* C12: in every reachable grid the start cell and the end cell are distinct:
\* no cell carries both the isStart and the isEnd flag, also after the start
\* is moved onto the cell of the end or the end onto the cell of the start.
C12_StartAndEndDistinct ==
  StartCells(pathfinding.grid) \cap EndCells(pathfinding.grid) = {}

(***************************************************************************)
(* clearPath                                                               *)
(***************************************************************************)
\* C13: clearPath, applied to the grid shown, gives a grid where every cell
\* has isVisited and isInPath false, distance unreached and previousNode
\* none, and the isWall, isStart and isEnd it had.
C13_ClearPathFrame ==
  LET g == pathfinding.grid
      h == ClearPathUpdate(g)
  IN /\ DOMAIN h = Cells
     /\ \A c \in Cells :
          /\ ~h[c].isVisited
          /\ ~h[c].isInPath
          /\ h[c].distance = Infinity
          /\ h[c].previousNode = NullNode
          /\ h[c].isWall = g[c].isWall
          /\ h[c].isStart = g[c].isStart
          /\ h[c].isEnd = g[c].isEnd

\* the grid shown has a wall, a moved start, and the trace of a finished run:
\* cells marked visited and cells marked in-path
C13_Witness ==
  /\ CompletedPathRuns # {}
  /\ Walls(pathfinding.grid) # {}
  /\ StartCells(pathfinding.grid) # StartCells(initializeGrid)
  /\ \E c \in Cells : pathfinding.grid[c].isVisited
  /\ \E c \in Cells : pathfinding.grid[c].isInPath

\* a token that writes an integer: decimal digits and nothing else
IsNumeral(token) ==
  token # <<>> /\ \A i \in 1..Len(token) : token[i] \in Digits

\* s is a comma-separated list of 1 to MAX_ELEMENTS integers of 1..100, the
\* blanks around a token and the empty tokens left aside
IsIntegerList(s) ==
  /\ Len(Tokens(s)) \in 1..MAX_ELEMENTS
  /\ \A i \in 1..Len(Tokens(s)) :
       IsNumeral(Tokens(s)[i]) /\ Decimal(Tokens(s)[i]) \in 1..100

ListedIntegers(s) == [i \in 1..Len(Tokens(s)) |-> Decimal(Tokens(s)[i])]

\* C14: applying the input vector accepts the text (clears the error) exactly
\* when the text is a comma-separated list of 1 to MAX_ELEMENTS integers of
\* 1..100, and then installs those integers in order
C14_AcceptsExactlyIntegerLists ==
  [][edits' # edits =>
       /\ (sorting'.error = "") <=> IsIntegerList(sorting.inputVector)
       /\ IsIntegerList(sorting.inputVector) =>
            sorting'.array = ListedIntegers(sorting.inputVector)]_vars

\* every token of s reads as a number of 1..100, and there are 1 to
\* MAX_ELEMENTS of them
WholeInputValid(s) ==
  /\ Len(Tokens(s)) \in 1..MAX_ELEMENTS
  /\ \A i \in 1..Len(Tokens(s)) :
       ~parseInt(Tokens(s)[i]).isNaN /\ parseInt(Tokens(s)[i]).value \in 1..100

\* C15: when applying the input vector rejects the text (an error message is
\* set) the component is as before but for the message: the array has the
\* same elements and length; the error is cleared, and the array replaced by
\* the numbers of the tokens, only when every token of the text is valid
C15_RejectLeavesArray ==
  [][edits' # edits =>
       /\ sorting'.error # "" => sorting' = [sorting EXCEPT !.error = sorting'.error]
       /\ sorting'.error = "" =>
            /\ WholeInputValid(sorting.inputVector)
            /\ sorting'.array =
                 [i \in 1..Len(Tokens(sorting.inputVector)) |->
                    parseInt(Tokens(sorting.inputVector)[i]).value]
       /\ sorting'.array # sorting.array => sorting'.error = ""]_vars

\* a text whose first token is valid and whose second is not has been applied
\* and rejected: the mounted array is still shown
C15_Witness ==
  /\ edits = 1
  /\ Len(Tokens(sorting.inputVector)) = 2
  /\ parseInt(Tokens(sorting.inputVector)[1]).value \in 1..100
  /\ parseInt(Tokens(sorting.inputVector)[2]).isNaN
  /\ sorting.error = "Invalid number in input"
  /\ sorting.array = SortingMounted.array

(***************************************************************************)
(* Sorting what is sorted                                                  *)
(***************************************************************************)
\* C16: a run of any of the four sorts whose input is in non-decreasing order
\* (the output of the run before it included) keeps its working copy and the
\* array shown equal to that input up to its end, and every array it
\* publishes equals the one in place: no Swap or Overwrite writes a value
\* other than the one already at its position.
C16_SortedInputUnchanged ==
  \A x \in DOMAIN sortRuns :
    IsSorted(sortRuns[x].input) =>
      /\ sortRuns[x].arr = sortRuns[x].input
      /\ sortRuns[x].nchange = 0
      /\ x = Len(sortRuns) => sorting.array = sortRuns[x].input

\* a sort has completed on the output of the run before it, which had put an
\* unsorted longest input in order, and has written the array on the way
C16_Witness ==
  /\ Len(sortRuns) = 2
  /\ CompletedSortRuns = {1, 2}
  /\ Len(sortRuns[1].input) = MaxLen
  /\ ~IsSorted(sortRuns[1].input)
  /\ sortRuns[2].input = sortRuns[1].arr
  /\ sortRuns[2].nwrite > 0
  /\ sorting.array = sortRuns[2].input

(***************************************************************************)
(* The values of the array                                                 *)
(***************************************************************************)
\* C17 (random generation): every array installed by random generation, on
\* mount and by the Generate New Array button, has all its elements in
\* MIN_NUMBER..MAX_NUMBER, that is 5..100.
C17_GeneratedInRange ==
  \A i \in 1..Len(sorting.array) : sorting.array[i] \in MIN_NUMBER..MAX_NUMBER

(***************************************************************************)
(* The queues of dijkstra and bfs                                          *)
(***************************************************************************)
\* the positions of the log of run r that hold an `op`
Positions(r, op) == {k \in DOMAIN r.log : r.log[k].op = op}

\* the position at which the entry dequeued at position k was enqueued
EnqueuedAt(r, k) ==
  CHOOSE p \in Positions(r, "enqueue") :
    p < k /\ r.log[p].cell = r.log[k].cell /\ r.log[p].d = r.log[k].d

\* the entries in the queue just before position k, by their enqueue positions
Pending(r, k) ==
  {p \in Positions(r, "enqueue") : p < k} \
    {EnqueuedAt(r, j) : j \in {i \in Positions(r, "dequeue") : i < k}}

DijkstraRuns == {x \in DOMAIN pathRuns : pathRuns[x].alg = "dijkstra"}

\* C18: in a dijkstra run no cell is finalized twice; every dequeue takes an
\* entry of the least tentative distance in the queue, the earliest enqueued
\* of those, and the distances dequeued never decrease; the dequeue of the
\* end cell is the last operation of the run: nothing is dequeued, finalized
\* or enqueued (relaxed) after it.
C18_DijkstraQueueOrder ==
  \A x \in DijkstraRuns :
    LET r == pathRuns[x] IN
    /\ \A i, j \in Positions(r, "finalize") : r.log[i].cell = r.log[j].cell => i = j
    /\ \A k \in Positions(r, "dequeue") :
         /\ \A p \in Pending(r, k) :
              \/ r.log[p].d > r.log[k].d
              \/ r.log[p].d = r.log[k].d /\ p >= EnqueuedAt(r, k)
         /\ \A j \in Positions(r, "dequeue") : j < k => r.log[j].d <= r.log[k].d
         /\ r.log[k].cell = r.end => k = Len(r.log)

\* a dijkstra run has dequeued two entries of the same distance, then the end
\* cell, with an entry still in its queue
C18_Witness ==
  \E x \in DijkstraRuns :
    LET r == pathRuns[x] IN
    /\ r.pc = "done" /\ r.stoppedAt = -1
    /\ r.log # <<>> /\ r.log[Len(r.log)].op = "dequeue" /\ r.log[Len(r.log)].cell = r.end
    /\ \E i, j \in Positions(r, "dequeue") : i < j /\ r.log[i].d = r.log[j].d
    /\ Pending(r, Len(r.log)) # {EnqueuedAt(r, Len(r.log))}
    /\ Cardinality(Positions(r, "finalize")) >= 3

BfsRuns == {x \in DOMAIN pathRuns : pathRuns[x].alg = "bfs"}

\* C19: in a bfs run the visited set is, while the run goes on, the set of the
\* cells enqueued so far; no cell is enqueued twice and the queue never holds
\* a cell twice.
C19_BfsEnqueuesOnce ==
  \A x \in BfsRuns :
    LET r == pathRuns[x] IN
    /\ PathActive(r) => r.closed = {r.log[p].cell : p \in Positions(r, "enqueue")}
    /\ \A p, q \in Positions(r, "enqueue") : r.log[p].cell = r.log[q].cell => p = q
    /\ \A i, j \in DOMAIN r.queue : r.queue[i] = r.queue[j] => i = j

\* a bfs run holds two cells in its queue and is offered, from the cell it is
\* expanding, a neighbour it has already enqueued
C19_Witness ==
  \E x \in BfsRuns :
    LET r == pathRuns[x] IN
    /\ PathActive(r)
    /\ Len(r.queue) >= 2
    /\ \E k \in 0..3 :
         /\ k >= r.ni
         /\ InBounds(Neighbor(r.cur, k))
         /\ Neighbor(r.cur, k) \in r.closed \ {r.start}
         /\ r.previous[Neighbor(r.cur, k)] # r.cur

(***************************************************************************)
(* The marks of dfs                                                        *)
(***************************************************************************)
DfsRuns == {x \in DOMAIN pathRuns : pathRuns[x].alg = "dfs"}

\* C20: in a dfs run the cells marked in-path are, in the order of the marks,
\* cells of the chain of dfs calls that led from the start to the end cell,
\* taken from the end towards the start, the end and the start left out; a
\* visited cell off that chain is never marked, and a run that has not
\* entered the end cell has marked nothing.
C20_MarksOnSuccessfulChain ==
  \A x \in DfsRuns :
    LET r == pathRuns[x] IN
    /\ r.chain = <<>> => r.marks = <<>>
    /\ r.chain # <<>> =>
         /\ Chain(r.chain)
         /\ r.chain[1] = r.end /\ r.chain[Len(r.chain)] = r.start
         /\ \A m \in DOMAIN r.marks : m + 1 < Len(r.chain) /\ r.marks[m] = r.chain[m + 1]
    /\ \A c \in Range(r.visits) \ Range(r.chain) : c \notin Range(r.marks)

\* a dfs run has completed with marks and with a visited cell of an abandoned
\* branch, which is not marked
C20_Witness ==
  \E x \in DfsRuns \cap CompletedPathRuns :
    LET r == pathRuns[x] IN
    /\ r.marks # <<>>
    /\ Len(r.marks) = Len(r.chain) - 2
    /\ Range(r.visits) \ Range(r.chain) # {}
    /\ \A c \in Range(r.visits) \ Range(r.chain) : ~pathfinding.grid[c].isInPath

(***************************************************************************)
(* The steps of the sorts, read from the trace of a run                    *)
(***************************************************************************)
\* the positions of the trace of run r that hold an `op`
TracePositions(r, op) == {t \in DOMAIN r.trace : r.trace[t].op = op}

\* the position of the partition call that returns at position t
CalledAt(r, t) ==
  CHOOSE s \in TracePositions(r, "partition") :
    s < t /\ \A u \in TracePositions(r, "partition") : u < t => u <= s

\* the compares of the trace of r between the positions s and t, in order
ComparesBetween(r, s, t) ==
  LET Is(e) == e.op = "compare"
  IN  SelectSeq(SubSeq(r.trace, s + 1, t - 1), Is)

QuickRuns == {x \in DOMAIN sortRuns : sortRuns[x].alg = "quick"}

\* C21: a call partition(arr, low, high) that runs without Stop compares the
\* indices low..high-1, in increasing order, with high, whose value on entry
\* is the pivot, and returns p in low..high with the pivot at p, the elements
\* of low..p-1 below it, those of p+1..high at or above it, and the elements
\* outside low..high as they were.
C21_PartitionContract ==
  \A x \in QuickRuns :
    LET r == sortRuns[x] IN
    \A t \in TracePositions(r, "return") :
      r.trace[t].a # -1 =>
        LET s == CalledAt(r, t)
            low == r.trace[s].a
            high == r.trace[s].b
            before == r.trace[s].arr
            after == r.trace[t].arr
            p == r.trace[t].a
            pivot == At(before, high)
            cmp == ComparesBetween(r, s, t)
        IN  /\ Len(cmp) = high - low
            /\ \A k \in DOMAIN cmp : cmp[k].a = low + k - 1 /\ cmp[k].b = high
            /\ p \in low..high
            /\ At(after, p) = pivot
            /\ \A k \in low..(p - 1) : At(after, k) < pivot
            /\ \A k \in (p + 1)..high : At(after, k) >= pivot
            /\ \A k \in 0..(Len(before) - 1) : k \notin low..high => At(after, k) = At(before, k)

\* partition has returned from the whole of a longest array that held, in
\* front of the pivot, a value equal to it and a lower one behind that
C21_Witness ==
  \E x \in QuickRuns :
    LET r == sortRuns[x] IN
    \E t \in TracePositions(r, "return") :
      LET s == CalledAt(r, t) IN
      /\ r.trace[s].a = 0 /\ r.trace[s].b = MaxLen - 1
      /\ At(r.trace[s].arr, 0) = At(r.trace[s].arr, MaxLen - 1)
      /\ At(r.trace[s].arr, 1) < At(r.trace[s].arr, MaxLen - 1)
      /\ r.trace[t].a = 1

MergeRuns == {x \in DOMAIN sortRuns : sortRuns[x].alg = "merge"}

\* C22: a merge sort run suspended in merge is merging left..mid with
\* mid+1..right for mid = floor((left + right) / 2); when the run has
\* completed every element of the array is an element of the input, each
\* taken once, and equal values stand in the order they had in the input.
C22_MergeSortStable ==
  \A x \in MergeRuns :
    LET r == sortRuns[x] IN
    /\ r.pc = "merge" =>
         /\ r.mid = (r.left + r.right) \div 2
         /\ Len(r.L) = r.mid - r.left + 1 /\ Len(r.R) = r.right - r.mid
    /\ x \in CompletedSortRuns =>
         /\ Range(r.ids) = DOMAIN r.input
         /\ \A k \in DOMAIN r.arr : r.arr[k] = r.input[r.ids[k]]
         /\ \A k, m \in DOMAIN r.arr : k < m /\ r.arr[k] = r.arr[m] => r.ids[k] < r.ids[m]

\* a merge sort has completed on a longest input that was out of order and
\* held the same value twice, with another value moved across them
C22_Witness ==
  \E x \in MergeRuns \cap CompletedSortRuns :
    LET r == sortRuns[x] IN
    /\ Len(r.input) = MaxLen
    /\ r.ids # [k \in 1..Len(r.input) |-> k]
    /\ \E k, m \in DOMAIN r.input : k # m /\ r.input[k] = r.input[m]
    /\ r.input[1] = r.input[MaxLen]

BubbleRuns == {x \in DOMAIN sortRuns : sortRuns[x].alg = "bubble"}

\* the compares of run r whose delay is over
Compared(r) ==
  {t \in TracePositions(r, "compare") : t < Len(r.trace) \/ r.pc = "done"}

\* C23: a bubble sort run left alone compares adjacent pairs (j, j+1) only;
\* a compare is followed by the swap of its pair exactly when the left value
\* is greater than the right one, and nothing else writes the array; a pass
\* (the compares from one at j = 0 up to the next) is followed by another
\* only when it has swapped; on a sorted array of n values the run makes
\* n - 1 compares and no swap.
C23_BubbleSteps ==
  \A x \in BubbleRuns :
    LET r == sortRuns[x]
        tr == r.trace
    IN
    /\ \A t \in TracePositions(r, "compare") : tr[t].b = tr[t].a + 1
    /\ \A t \in Compared(r) :
         IF At(tr[t].arr, tr[t].a) > At(tr[t].arr, tr[t].b)
           THEN /\ t < Len(tr)
                /\ tr[t + 1].op = "write"
                /\ tr[t + 1].arr = SwapAt(tr[t].arr, tr[t].a, tr[t].b)
           ELSE t < Len(tr) => tr[t + 1].op # "write"
    /\ \A t \in TracePositions(r, "write") : t > 1 /\ tr[t - 1].op = "compare"
    /\ \A t, u \in TracePositions(r, "compare") :
         t < u /\ tr[t].a = 0 /\ tr[u].a = 0 =>
           \E w \in TracePositions(r, "write") : t < w /\ w < u
    /\ r.pc = "done" /\ IsSorted(r.input) =>
         /\ Cardinality(TracePositions(r, "compare")) = Len(r.input) - 1
         /\ TracePositions(r, "write") = {}

\* a bubble sort has completed on a sorted longest array after one pass, and
\* another on an unsorted one after a pass that swapped and one that did not
C23_Witness ==
  /\ Len(sortRuns) = 2
  /\ BubbleRuns \cap CompletedSortRuns = {1, 2}
  /\ Len(sortRuns[1].input) = MaxLen
  /\ ~IsSorted(sortRuns[1].input)
  /\ TracePositions(sortRuns[1], "write") # {}
  /\ Cardinality({t \in TracePositions(sortRuns[1], "compare") : sortRuns[1].trace[t].a = 0}) = 2
  /\ Cardinality(TracePositions(sortRuns[2], "compare")) = MaxLen - 1
  /\ TracePositions(sortRuns[2], "write") = {}

(***************************************************************************)
(* algorithms/pathfinding.ts                                               *)
(***************************************************************************)
\* the least number of steps in which c is reached from the cells of
\* `reached`, d steps away from the start already, across non-wall cells
RECURSIVE StepsFrom(_, _, _, _)
StepsFrom(g, reached, c, d) ==
  IF c \in reached THEN d
  ELSE LET next == reached \cup {n \in Cells : ~g[n].isWall /\ \E m \in reached : Adjacent(m, n)}
       IN  IF next = reached THEN Infinity ELSE StepsFrom(g, next, c, d + 1)

TrueDistance(g, c) == StepsFrom(g, {FindStart(g)}, c, 0)

\* C24: when dijkstra or aStar, called on a fresh grid, has reached endNode,
\* getNodesInShortestPathOrder(endNode) returns, and returns a list of
\* distinct nodes from startNode to endNode whose consecutive nodes are
\* 4-adjacent, none a wall, of length endNode.distance + 1.
C24_ShortestPathOrder ==
  library.asked /\ library.end \in Range(library.visitedNodes) =>
    /\ library.returns
    /\ library.path # <<>>
    /\ library.path[1] = library.start
    /\ library.path[Len(library.path)] = library.end
    /\ Chain(library.path)
    /\ \A k \in DOMAIN library.path : ~library.before[library.path[k]].isWall
    /\ Len(library.path) = library.grid[library.end].distance + 1

\* aStar has reached the end, around walls, and the list of
\* getNodesInShortestPathOrder has at least four nodes
C24_Witness ==
  /\ library.fn = "aStar"
  /\ library.asked
  /\ library.end \in Range(library.visitedNodes)
  /\ Cardinality(Walls(library.before)) = MaxWalls
  /\ Len(library.path) >= 4
  /\ Len(library.path) > Manhattan(library.start, library.end) + 1

\* C30: the list dijkstra returns for a fresh grid holds no wall and no node
\* twice, is in non-decreasing order of distance, gives every node of the
\* list its least number of steps from startNode, and ends with endNode when
\* endNode can be reached.
C30_DijkstraList ==
  library.fn = "dijkstra" =>
    LET list == library.visitedNodes
        g == library.grid
    IN  /\ \A k \in DOMAIN list : ~library.before[list[k]].isWall
        /\ Cardinality(Range(list)) = Len(list)
        /\ \A k \in 1..(Len(list) - 1) : g[list[k]].distance <= g[list[k + 1]].distance
        /\ \A k \in DOMAIN list : g[list[k]].distance = TrueDistance(library.before, list[k])
        /\ EndReachable(library.before) => list # <<>> /\ list[Len(list)] = library.end

\* dijkstra has returned a list of at least five nodes that ends with an end
\* node three or more steps away, on a grid with walls
C30_Witness ==
  /\ library.fn = "dijkstra"
  /\ Cardinality(Walls(library.before)) = MaxWalls
  /\ Len(library.visitedNodes) >= 5
  /\ library.visitedNodes[Len(library.visitedNodes)] = library.end
  /\ library.grid[library.end].distance >= 3

(***************************************************************************)
(* A cancelled run and the later writes to shouldStop                      *)
(***************************************************************************)
\* the component as a run on which Stop was pressed should see it:
\* shouldStop.current still true
SortCancelled == [sorting EXCEPT !.shouldStop = TRUE]

PathCancelled == [pathfinding EXCEPT !.shouldStop = TRUE]

\* C25: a run on which Stop was pressed stays cancelled whatever is pressed
\* afterwards (Reset Grid, Generate New Array, Sort or Visualize again): each
\* time its timer fires it goes on exactly as it does with shouldStop true,
\* so that it ends at its next cancellation check.
C25_CancelledStaysCancelled ==
  [][/\ \A x \in DOMAIN sortRuns :
          sortRuns[x].stoppedAt # -1 /\ sortRuns'[x] # sortRuns[x] =>
            sortRuns'[x] = SortResume(sortRuns[x], SortCancelled).r
     /\ \A x \in DOMAIN pathRuns :
          pathRuns[x].stoppedAt # -1 /\ pathRuns'[x] # pathRuns[x] =>
            pathRuns'[x] = PathResume(pathRuns[x], PathCancelled).r]_vars

(***************************************************************************)
(* A second run on the same grid                                           *)
(***************************************************************************)
\* run y was started after run x had returned, neither was stopped, with the
\* same algorithm and on a grid with the same walls, start and end
Rerun(x, y) ==
  /\ x < y
  /\ pathRuns[x].pc = "done" /\ pathRuns[x].stoppedAt = -1 /\ pathRuns[y].stoppedAt = -1
  /\ pathRuns[x].alg = pathRuns[y].alg
  /\ Walls(pathRuns[x].grid) = Walls(pathRuns[y].grid)
  /\ pathRuns[x].start = pathRuns[y].start /\ pathRuns[x].end = pathRuns[y].end

\* C26: a run depends only on walls, start and end.  A second run of the same
\* algorithm on a grid whose walls, start and end are those of the first
\* run visits the same cells in the same order and marks the same path, and
\* while it runs and afterwards the grid shows no visited or in-path mark
\* other than its own.
C26_RerunIndependent ==
  \A x, y \in DOMAIN pathRuns :
    Rerun(x, y) /\ y = Len(pathRuns) =>
      /\ pathRuns[y].pc = "done" =>
            /\ pathRuns[y].visits = pathRuns[x].visits
            /\ pathRuns[y].marks = pathRuns[x].marks
      /\ \A c \in Cells :
            /\ pathfinding.grid[c].isVisited => c \in Range(pathRuns[y].visits)
            /\ pathfinding.grid[c].isInPath => c \in Range(pathRuns[y].marks)

(***************************************************************************)
(* The array a stopped sort leaves                                         *)
(***************************************************************************)
\* the runs on which Stop was pressed and which have returned since
StoppedSorts ==
  {x \in DOMAIN sortRuns : sortRuns[x].pc = "done" /\ sortRuns[x].stoppedAt # -1}

\* C27: once a sort run cancelled by Stop has returned, and nothing else
\* has written to the array, the array displayed is a permutation of the
\* one displayed when the run started: same length, same values as often.
C27_StoppedPermutation ==
  \A x \in StoppedSorts :
    Len(sortRuns) = 1 /\ edits = 0 => SameMultiset(sorting.array, sortRuns[x].input)

(***************************************************************************)
(* The marked path                                                         *)
(***************************************************************************)
\* the runs that went to their end on a grid whose end can be reached
SuccessfulPathRuns ==
  {x \in CompletedPathRuns : EndReachable(pathRuns[x].grid)}

\* the cells of the path a run marked: the marked ones and the two ends
PathCells(r) == Range(r.marks) \cup {r.start, r.end}

\* C29: after a successful run of any of the four algorithms, the cells
\* marked in-path, with the start and the end, form a simple path: taken in
\* the order of the marks or in the reverse order they are distinct cells
\* leading from the start to the end, each next to the one before (never
\* diagonal), all inside the grid and none a wall; the grid shows in-path on
\* the cells the run marked and on no other.
C29_SimplePath ==
  \A x \in SuccessfulPathRuns :
    LET r == pathRuns[x]
    IN /\ StartToEnd(r) \/ EndToStart(r)
       /\ Cardinality(Range(r.marks)) = Len(r.marks)
       /\ \A c \in PathCells(r) : InBounds(c) /\ ~r.grid[c].isWall
       /\ {c \in Cells : pathfinding.grid[c].isInPath} = Range(r.marks)

\* a BFS run has ended on a grid with walls, its path longer than the
\* Manhattan distance between start and end
C29_Witness ==
  \E x \in SuccessfulPathRuns :
    LET r == pathRuns[x]
    IN /\ r.alg = "bfs"
       /\ Cardinality(Walls(r.grid)) = MaxWalls
       /\ Cardinality(PathCells(r)) - 1 > Manhattan(r.start, r.end)
       /\ Len(r.marks) >= 3

(***************************************************************************)
(* Termination                                                             *)
(***************************************************************************)
\* a run has started and has not returned, or a running flag is set
Running ==
  \/ ActiveSortRuns # {} \/ sorting.isSorting
  \/ ActivePathRuns # {} \/ pathfinding.isVisualizing

\* C28: every run terminates.  Whatever the algorithm, the input and the
\* moment Stop is pressed, if every delay() timer fires in the end, a run
\* that has started returns in the end and the running flag (isSorting,
\* isVisualizing) is false then.
C28_EveryRunReturns == Running ~> ~Running

\* a quick sort run has returned after a Stop that came when it had
\* published two step updates or more, and nothing is running
C28_Witness ==
  /\ ~Running
  /\ \E x \in DOMAIN sortRuns :
       sortRuns[x].alg = "quick" /\ sortRuns[x].stoppedAt >= 2

====
